---- MODULE Spec2Model ----
(***************************************************************************)
(* IR code generator of morning.lang (source/morningllvm.cpp, env.h).      *)
(*                                                                         *)
(* The walker generate_expression is a recursive function over the AST.   *)
(* It is modelled as a state machine over its own call stack: `stack`     *)
(* holds one activation record per open generate_expression call, each    *)
(* with the position (pc) its handler has reached.  The AST is chosen as  *)
(* the walker visits it (depth first, left to right, as the code does):   *)
(* an activation record of kind "expr" is a call whose expression has     *)
(* not been dispatched yet, and each dispatching action picks its form.   *)
(***************************************************************************)
EXTENDS Integers, Sequences, FiniteSets, TLC

VARIABLES
    phase,        \* "init": constructed; "gen": inside generate_ir; "done": execute returned
    status,       \* return value of execute (-1 while it has not returned)
    funcs,        \* m_MODULE's functions, in creation order: [name, entry, nargs, rty]
    blocks,       \* every llvm::BasicBlock created: [fn, instrs]; fn = 0: not in a function
    insertBlock,  \* m_IR_BUILDER->GetInsertBlock()
    activeFn,     \* m_ACTIVE_FUNCTION (index into funcs, 0 = nullptr)
    envs,         \* the Environment objects: [record, parent]; 1 is m_GLOBAL_ENV
    constants,    \* m_CONSTANTS: name -> slot
    variables,    \* m_VARIABLES: name -> slot
    loopStack,    \* m_LOOP_STACK: sequence of [break_blog, continue_block]
    stack,        \* activation records of generate_expression
    ret,          \* value returned by the generate_expression call that returned last
    fatal,        \* "none", or the kind of the LOG_CRITICAL that ended the process
    warnings,     \* LOG_WARN messages printed so far: set of <<kind, name>>
    nextId,       \* serial number of the next instruction (identity of an llvm::Value)
    forms,        \* number of non-literal forms the program still has room for
    expression_stack_,  \* Logger::expression_stack_: sequence of <<context, expr>>
    format_exp,   \* finput: the text of the format argument exp.list[1]
    string_input, \* finput: has_string_input, some target is treated as a string
    format_str,   \* finput: the format string passed to scanf
    argv,         \* InputParser::parse: the tokens argv[1..argc-1]
    arg_index,    \* InputParser::parse: the loop index i (0: parse is not running)
    m_PARSED_VALUES,    \* InputParser: option index -> value
    m_POSITIONAL_ARGS,  \* InputParser: tokens taken as positional arguments
    m_ERRORS      \* InputParser: error messages, as <<kind, token>>

\* the state outside the code generator: the logger, the format string of
\* finput, the command line parser
aux == <<expression_stack_, format_exp, string_input, format_str, argv, arg_index,
         m_PARSED_VALUES, m_POSITIONAL_ARGS, m_ERRORS>>

vars == <<phase, status, funcs, blocks, insertBlock, activeFn, envs, constants,
          variables, loopStack, stack, ret, fatal, warnings, nextId, forms,
          expression_stack_, format_exp, string_input, format_str, argv,
          arg_index, m_PARSED_VALUES,
          m_POSITIONAL_ARGS, m_ERRORS>>

-----------------------------------------------------------------------------
(* Bounds of the model *)

\* number of non-literal forms in one program of control flow forms
MaxControlForms == 2
\* number of non-literal forms in one program of variable forms
MaxEnvForms == 3
\* number of non-literal forms in one program of typed declarations
MaxTypeForms == 2
\* number of children of one scope or loop form
MaxKids == 2
\* forms of a program of typed declarations and assignments
MaxSetForms == 2
\* forms of a program of binary operators
MaxArithForms == 2
\* forms of a program of tagged declarations
MaxResolveForms == 1
\* forms of a program of check forms
MaxCheckForms == 2
\* forms of a program of allocating forms
MaxAllocaForms == 2
\* forms of a program of array declarations and element assignments
MaxArrayForms == 3
\* forms of a program of func forms with and without a body
MaxFuncForms == 3
\* forms of a program of mem-alloc, mem-free and func forms
MaxMemForms == 3
\* expressions recorded in the traceback buffer
MaxRecorded == 2
\* characters of a format string
MaxFormatLength == 4
\* forms of a program of loops, func forms, break and continue
MaxBreakForms == 3
\* tokens of a command line
MaxArgs == 3

-----------------------------------------------------------------------------
(* Values, instructions, blocks *)

\* an llvm::Value*: k = "const" | "inst" | "alloca" | "global" | "fn" | "null"
V(k, ty, id) == [k |-> k, ty |-> ty, id |-> id]

NullV == V("null", "void", 0)

\* getInt64(0)
Int64Zero == V("const", "i64", 0)

\* an instruction: op, block operands (args), result or operand type, operand note
I(op, args, ty, v) == [op |-> op, args |-> args, ty |-> ty, v |-> v]

isIntegerTy(ty) == ty \in {"i1", "i8", "i16", "i32", "i64"}

isTerminator(ins) == ins.op \in {"br", "condbr", "ret"}

\* BasicBlock::getTerminator() != nullptr: the last instruction is a terminator
getTerminator(bs, b) ==
    /\ Len(bs[b].instrs) > 0
    /\ isTerminator(bs[b].instrs[Len(bs[b].instrs)])

\* IRBuilder::Create*: append at the insertion point, the end of block b
Emit(bs, b, ins) == [bs EXCEPT ![b].instrs = Append(@, ins)]

\* an emission the handler makes only when the block has no terminator
EmitUnlessTerminated(bs, b, ins) == IF getTerminator(bs, b) THEN bs ELSE Emit(bs, b, ins)

\* create_basic_block(label, parent); parent 0 creates a detached block
create_basic_block(bs, parent) == Append(bs, [fn |-> parent, instrs |-> <<>>])

\* m_ACTIVE_FUNCTION->insert(m_ACTIVE_FUNCTION->end(), block)
InsertInto(bs, b, f) == [bs EXCEPT ![b].fn = f]

-----------------------------------------------------------------------------
(* Environment (env.h) *)

EmptyRecord == [n \in {} |-> NullV]

\* a define that writes the global scope instead of the scope it is called on
defineGlobally(es, e, name, v) == [es EXCEPT ![1].record = (name :> v) @@ @]

\* Environment::define: m_RECORD[var_name] = value, on the scope it is called on
define(es, e, name, v) == [es EXCEPT ![e].record = (name :> v) @@ @]

\* Environment::resolve: the nearest scope towards the root that binds name;
\* 0 stands for the LOG_CRITICAL "is not defined"
RECURSIVE resolve(_, _, _)
resolve(es, e, name) ==
    IF name \in DOMAIN es[e].record THEN e
    ELSE IF es[e].parent = 0 THEN 0
    ELSE resolve(es, es[e].parent, name)

\* Environment::lookup_by_name, where resolve succeeds
lookup_by_name(es, e, name) == es[resolve(es, e, name)].record[name]

\* std::make_shared<Environment>(empty record, parent)
NewEnv(es, parent) == Append(es, [record |-> EmptyRecord, parent |-> parent])

-----------------------------------------------------------------------------
(* Module functions *)

\* m_MODULE->getFunction(name): index of the function, 0 for nullptr
getFunction(fs, name) ==
    IF \E i \in 1..Len(fs) : fs[i].name = name
    THEN CHOOSE i \in 1..Len(fs) : fs[i].name = name
    ELSE 0

-----------------------------------------------------------------------------
(* Activation records *)

Frame(k, pc, env) ==
    [k |-> k, pc |-> pc, env |-> env, nm |-> "", tag |-> "", op |-> "",
     blks |-> <<>>, vals |-> <<>>, brs |-> <<>>, arms |-> <<>>, kids |-> 0,
     prevFn |-> 0, prevBlock |-> 0, snap |-> <<>>]

\* a generate_expression(exp, env) call whose exp has not been dispatched
Expr(env) == Frame("expr", 0, env)

Top == stack[Len(stack)]

Running == fatal = "none" /\ phase = "gen" /\ stack # <<>>

\* the call on top is about to dispatch on its expression
Pending == Running /\ Top.k = "expr"

\* the handler of a k form is on top, resumed at position pc
At(k, pc) == Running /\ Top.k = k /\ Top.pc = pc

\* the handler on top becomes f and calls generate_expression(child, env)
CallWith(f, env) == [stack EXCEPT ![Len(stack)] = f] \o <<Expr(env)>>

\* the call on top returns
Popped == SubSeq(stack, 1, Len(stack) - 1)

-----------------------------------------------------------------------------
(* Construction: MorningLanguageLLVM::MorningLanguageLLVM() *)

\* setup_extern_functions: printf, scanf, getchar declared (no body)
ExternFunctions ==
    << [name |-> "printf", entry |-> 0, nargs |-> 1, rty |-> "i64"],
       [name |-> "scanf", entry |-> 0, nargs |-> 1, rty |-> "i64"],
       [name |-> "getchar", entry |-> 0, nargs |-> 0, rty |-> "i64"] >>

\* setup_global_environment: _VERSION is a global i64 constant
GlobalEnv == [record |-> ("_VERSION" :> V("global", "i64", 0)), parent |-> 0]

Init ==
    /\ phase = "init"
    /\ status = -1
    /\ funcs = ExternFunctions
    /\ blocks = <<>>
    /\ insertBlock = 0
    /\ activeFn = 0
    /\ envs = <<GlobalEnv>>
    /\ constants = EmptyRecord
    /\ variables = EmptyRecord
    /\ loopStack = <<>>
    /\ stack = <<>>
    /\ ret = NullV
    /\ fatal = "none"
    /\ warnings = {}
    /\ nextId = 1
    /\ forms = 0
    /\ expression_stack_ = <<>>
    /\ format_exp = <<>>
    /\ string_input = FALSE
    /\ format_str = <<>>
    /\ argv = <<>>
    /\ arg_index = 0
    /\ m_PARSED_VALUES = <<>>
    /\ m_POSITIONAL_ARGS = <<>>
    /\ m_ERRORS = <<>>

-----------------------------------------------------------------------------
(* Functions: create_function, create_function_prototype, setup_function_body *)

\* create_function(name, type, env): an existing function of that name is
\* returned as it is (no new block, insertion point and env untouched);
\* otherwise the prototype is created and defined in env, and an entry block
\* is created and made the insertion point.
create_function(name, nargs, rty, e) ==
    LET existing == getFunction(funcs, name)
        fn == Len(funcs) + 1
        entry == Len(blocks) + 1
    IN  IF existing # 0
        THEN [fn |-> existing, funcs |-> funcs, blocks |-> blocks,
              envs |-> envs, insert |-> insertBlock]
        ELSE [fn |-> fn,
              funcs |-> Append(funcs, [name |-> name, entry |-> entry, nargs |-> nargs,
                                      rty |-> rty]),
              blocks |-> create_basic_block(blocks, fn),
              envs |-> define(envs, e, name, V("fn", "ptr", fn)),
              insert |-> entry]

-----------------------------------------------------------------------------
(* execute / generate_ir *)

\* execute up to the call generate_expression(ast, m_GLOBAL_ENV) of generate_ir;
\* the ast is "[scope " + program + "]", so the call is left undispatched with
\* the mark "root" that only the scope handler accepts.  size is the number of
\* non-literal forms of the program.
generate_ir_begin(size) ==
    /\ phase = "init"
    /\ fatal = "none"
    /\ LET c == create_function("main", 0, "i64", 1)
       IN  /\ funcs' = c.funcs
           /\ blocks' = c.blocks
           /\ envs' = c.envs
           /\ insertBlock' = c.insert
           /\ activeFn' = c.fn
    /\ stack' = <<[Expr(1) EXCEPT !.tag = "root"]>>
    /\ phase' = "gen"
    /\ forms' = size
    /\ UNCHANGED <<status, constants, variables, loopStack, ret, fatal, warnings,
                   nextId>>
    /\ UNCHANGED aux

\* the instruction generate_ir emits after the root expression: ret i64 0
RetZero == I("ret", <<>>, "i64", "const0")

\* generate_ir after generate_expression returned, and the rest of execute
generate_ir_end ==
    /\ phase = "gen"
    /\ fatal = "none"
    /\ stack = <<>>
    /\ blocks' = Emit(blocks, insertBlock, RetZero)
    /\ phase' = "done"
    /\ status' = 0
    /\ UNCHANGED <<funcs, insertBlock, activeFn, envs, constants, variables,
                   loopStack, stack, ret, fatal, warnings, nextId, forms>>
    /\ UNCHANGED aux

-----------------------------------------------------------------------------
(* generate_expression: literals and symbols *)

\* a form other than the program's root scope
Inner == Pending /\ Top.tag # "root"

\* a non-literal form may be dispatched while the program has room for it
Room == forms > 0

\* case ExpType::NUMBER: a constant of the narrowest type ty that fits
Number(ty) ==
    /\ Inner
    /\ stack' = Popped
    /\ ret' = V("const", ty, 0)
    /\ UNCHANGED <<phase, status, funcs, blocks, insertBlock, activeFn, envs,
                   constants, variables, loopStack, fatal, warnings, nextId, forms>>
    /\ UNCHANGED aux

\* case ExpType::FRACTIONAL
Fractional ==
    /\ Inner
    /\ stack' = Popped
    /\ ret' = V("const", "double", 0)
    /\ UNCHANGED <<phase, status, funcs, blocks, insertBlock, activeFn, envs,
                   constants, variables, loopStack, fatal, warnings, nextId, forms>>
    /\ UNCHANGED aux

\* case ExpType::STRING: CreateGlobalStringPtr
String ==
    /\ Inner
    /\ stack' = Popped
    /\ ret' = V("const", "ptr", 0)
    /\ UNCHANGED <<phase, status, funcs, blocks, insertBlock, activeFn, envs,
                   constants, variables, loopStack, fatal, warnings, nextId, forms>>
    /\ UNCHANGED aux

\* case ExpType::SYMBOL other than true/false: lookup, then the function itself
\* or a load of the slot's pointee type
Symbol(name) ==
    /\ Inner
    /\ Room
    /\ forms' = forms - 1
    /\ IF resolve(envs, Top.env, name) = 0
       THEN /\ fatal' = "undefined"
            /\ UNCHANGED <<stack, ret, blocks, nextId>>
       ELSE LET value == lookup_by_name(envs, Top.env, name)
            IN  /\ fatal' = fatal
                /\ stack' = Popped
                /\ IF value.k = "fn"
                   THEN /\ ret' = value
                        /\ UNCHANGED <<blocks, nextId>>
                   ELSE /\ blocks' = Emit(blocks, insertBlock,
                                          I("load", <<value.id>>, value.ty, value.k))
                        /\ ret' = V("inst", value.ty, nextId)
                        /\ nextId' = nextId + 1
    /\ UNCHANGED <<phase, status, funcs, insertBlock, activeFn, envs, constants,
                   variables, loopStack, warnings>>
    /\ UNCHANGED aux

-----------------------------------------------------------------------------
(* generate_expression: scope *)

\* "scope": block_env is a new child of env; the first child is generated in it.
\* snap records the environments as they are at entry (for the frame claims).
ScopeEnter ==
    /\ Pending
    /\ (Top.tag # "root") => Room
    /\ forms' = IF Top.tag = "root" THEN forms ELSE forms - 1
    /\ envs' = NewEnv(envs, Top.env)
    /\ stack' = CallWith([Frame("scope", 1, Top.env) EXCEPT
                              !.blks = <<Len(envs) + 1>>, !.kids = 1, !.snap = envs],
                         Len(envs) + 1)
    /\ UNCHANGED <<phase, status, funcs, blocks, insertBlock, activeFn, constants,
                   variables, loopStack, ret, fatal, warnings, nextId>>
    /\ UNCHANGED aux

\* "scope": the loop over exp.list goes on to the next child
ScopeNext ==
    /\ At("scope", 1)
    /\ Top.kids < MaxKids
    /\ stack' = CallWith([Top EXCEPT !.kids = @ + 1], Top.blks[1])
    /\ UNCHANGED <<phase, status, funcs, blocks, insertBlock, activeFn, envs,
                   constants, variables, loopStack, ret, fatal, warnings, nextId, forms>>
    /\ UNCHANGED aux

\* the value a scope form returns: block_res, the value of its last child
ScopeResult(last) == last

\* "scope": the list is exhausted; return block_res
ScopeExit ==
    /\ At("scope", 1)
    /\ stack' = Popped
    /\ ret' = ScopeResult(ret)
    /\ UNCHANGED <<phase, status, funcs, blocks, insertBlock, activeFn, envs,
                   constants, variables, loopStack, fatal, warnings, nextId, forms>>
    /\ UNCHANGED aux

-----------------------------------------------------------------------------
(* generate_expression: loop, while, for, break, continue *)

\* a frame of m_LOOP_STACK with its two targets exchanged
LoopBlocksExchanged(brk, cont) == [break_blog |-> cont, continue_block |-> brk]

\* a {break_blog, continue_block} frame of m_LOOP_STACK
LoopBlocks(brk, cont) == [break_blog |-> brk, continue_block |-> cont]

\* "loop": blocks loop.body (in the function) and loop.exit (detached), branch
\* into the body, push the frame; the children follow
LoopEnter ==
    /\ Inner
    /\ Room
    /\ forms' = forms - 1
    /\ LET loop_body == Len(blocks) + 1
           loop_exit == Len(blocks) + 2
           bs1 == create_basic_block(create_basic_block(blocks, activeFn), 0)
       IN  /\ blocks' = Emit(bs1, insertBlock, I("br", <<loop_body>>, "void", ""))
           /\ insertBlock' = loop_body
           /\ loopStack' = Append(loopStack, LoopBlocks(loop_exit, loop_body))
           /\ stack' = [stack EXCEPT ![Len(stack)] =
                            [Frame("loop", 1, Top.env) EXCEPT !.blks = <<loop_body, loop_exit>>]]
    /\ UNCHANGED <<phase, status, funcs, activeFn, envs, constants, variables,
                   ret, fatal, warnings, nextId>>
    /\ UNCHANGED aux

\* "loop": the next child of the body
LoopNext ==
    /\ At("loop", 1)
    /\ Top.kids < MaxKids
    /\ stack' = CallWith([Top EXCEPT !.kids = @ + 1], Top.env)
    /\ UNCHANGED <<phase, status, funcs, blocks, insertBlock, activeFn, envs,
                   constants, variables, loopStack, ret, fatal, warnings, nextId, forms>>
    /\ UNCHANGED aux

\* a loop form that leaves its frame on the loop context stack
PopLoopKeepsFrame(ls) == ls

\* the loop context stack after a loop form is done: pop_back
PopLoop(ls) == SubSeq(ls, 1, Len(ls) - 1)

\* "loop": after the children, branch back unless terminated, append loop.exit,
\* continue there, pop the frame
LoopExit ==
    /\ At("loop", 1)
    /\ LET loop_body == Top.blks[1]
           loop_exit == Top.blks[2]
           bs1 == EmitUnlessTerminated(blocks, insertBlock, I("br", <<loop_body>>, "void", ""))
       IN  /\ blocks' = InsertInto(bs1, loop_exit, activeFn)
           /\ insertBlock' = loop_exit
    /\ loopStack' = PopLoop(loopStack)
    /\ stack' = Popped
    /\ ret' = Int64Zero
    /\ UNCHANGED <<phase, status, funcs, activeFn, envs, constants, variables,
                   fatal, warnings, nextId, forms>>
    /\ UNCHANGED aux

\* "while": blocks break and continue (detached), push the frame, block cond
\* (in the function), branch to it, block body (detached); generate the condition
WhileEnter ==
    /\ Inner
    /\ Room
    /\ forms' = forms - 1
    /\ LET break_blog == Len(blocks) + 1
           continue_block == Len(blocks) + 2
           condition_block == Len(blocks) + 3
           body_block == Len(blocks) + 4
           bs1 == create_basic_block(create_basic_block(blocks, 0), 0)
           bs2 == create_basic_block(bs1, activeFn)
           bs3 == Emit(bs2, insertBlock, I("br", <<condition_block>>, "void", ""))
       IN  /\ blocks' = create_basic_block(bs3, 0)
           /\ insertBlock' = condition_block
           /\ loopStack' = Append(loopStack, LoopBlocks(break_blog, continue_block))
           /\ stack' = CallWith([Frame("while", 1, Top.env) EXCEPT
                                     !.blks = <<break_blog, continue_block,
                                                condition_block, body_block>>],
                                Top.env)
    /\ UNCHANGED <<phase, status, funcs, activeFn, envs, constants, variables,
                   ret, fatal, warnings, nextId>>
    /\ UNCHANGED aux

\* "while": conditional branch on the condition, append body, generate the body
WhileCond ==
    /\ At("while", 1)
    /\ LET break_blog == Top.blks[1]
           body_block == Top.blks[4]
           bs1 == Emit(blocks, insertBlock, I("condbr", <<body_block, break_blog>>, "void", ""))
       IN  /\ blocks' = InsertInto(bs1, body_block, activeFn)
           /\ insertBlock' = body_block
    /\ stack' = CallWith([Top EXCEPT !.pc = 2], Top.env)
    /\ UNCHANGED <<phase, status, funcs, activeFn, envs, constants, variables,
                   loopStack, ret, fatal, warnings, nextId, forms>>
    /\ UNCHANGED aux

\* "while": branch to continue unless terminated; continue rejoins cond;
\* break is appended and becomes the insertion point; pop the frame
WhileBody ==
    /\ At("while", 2)
    /\ LET break_blog == Top.blks[1]
           continue_block == Top.blks[2]
           condition_block == Top.blks[3]
           bs1 == EmitUnlessTerminated(blocks, insertBlock,
                                       I("br", <<continue_block>>, "void", ""))
           bs2 == InsertInto(bs1, continue_block, activeFn)
           bs3 == Emit(bs2, continue_block, I("br", <<condition_block>>, "void", ""))
       IN  /\ blocks' = InsertInto(bs3, break_blog, activeFn)
           /\ insertBlock' = break_blog
    /\ loopStack' = PopLoop(loopStack)
    /\ stack' = Popped
    /\ ret' = Int64Zero
    /\ UNCHANGED <<phase, status, funcs, activeFn, envs, constants, variables,
                   fatal, warnings, nextId, forms>>
    /\ UNCHANGED aux

\* "for": for_env is a new child of env; generate init in it
ForEnter ==
    /\ Inner
    /\ Room
    /\ forms' = forms - 1
    /\ envs' = NewEnv(envs, Top.env)
    /\ stack' = CallWith([Frame("for", 1, Top.env) EXCEPT !.vals = <<Len(envs) + 1>>],
                         Len(envs) + 1)
    /\ UNCHANGED <<phase, status, funcs, blocks, insertBlock, activeFn, constants,
                   variables, loopStack, ret, fatal, warnings, nextId>>
    /\ UNCHANGED aux

\* "for": blocks for.cond (in the function), for.body, for.step, for.break
\* (detached); branch to cond; generate the condition there
ForInit ==
    /\ At("for", 1)
    /\ LET cond_block == Len(blocks) + 1
           body_block == Len(blocks) + 2
           step_block == Len(blocks) + 3
           break_blog == Len(blocks) + 4
           bs1 == create_basic_block(blocks, activeFn)
           bs2 == create_basic_block(create_basic_block(create_basic_block(bs1, 0), 0), 0)
       IN  /\ blocks' = Emit(bs2, insertBlock, I("br", <<cond_block>>, "void", ""))
           /\ insertBlock' = cond_block
           /\ stack' = CallWith([Top EXCEPT !.pc = 2,
                                     !.blks = <<cond_block, body_block, step_block, break_blog>>],
                                Top.vals[1])
    /\ UNCHANGED <<phase, status, funcs, activeFn, envs, constants, variables,
                   loopStack, ret, fatal, warnings, nextId, forms>>
    /\ UNCHANGED aux

\* "for": conditional branch, append body, push the frame, generate the body
ForCond ==
    /\ At("for", 2)
    /\ LET body_block == Top.blks[2]
           step_block == Top.blks[3]
           break_blog == Top.blks[4]
           bs1 == Emit(blocks, insertBlock, I("condbr", <<body_block, break_blog>>, "void", ""))
       IN  /\ blocks' = InsertInto(bs1, body_block, activeFn)
           /\ insertBlock' = body_block
           /\ loopStack' = Append(loopStack, LoopBlocks(break_blog, step_block))
    /\ stack' = CallWith([Top EXCEPT !.pc = 3], Top.vals[1])
    /\ UNCHANGED <<phase, status, funcs, activeFn, envs, constants, variables,
                   ret, fatal, warnings, nextId, forms>>
    /\ UNCHANGED aux

\* "for": pop the frame, branch to step unless terminated, append step,
\* generate the step there
ForBody ==
    /\ At("for", 3)
    /\ loopStack' = PopLoop(loopStack)
    /\ LET step_block == Top.blks[3]
           bs1 == EmitUnlessTerminated(blocks, insertBlock, I("br", <<step_block>>, "void", ""))
       IN  /\ blocks' = InsertInto(bs1, step_block, activeFn)
           /\ insertBlock' = step_block
    /\ stack' = CallWith([Top EXCEPT !.pc = 4], Top.vals[1])
    /\ UNCHANGED <<phase, status, funcs, activeFn, envs, constants, variables,
                   ret, fatal, warnings, nextId, forms>>
    /\ UNCHANGED aux

\* "for": branch back to cond, append for.break and continue there
ForStep ==
    /\ At("for", 4)
    /\ LET cond_block == Top.blks[1]
           break_blog == Top.blks[4]
           bs1 == Emit(blocks, insertBlock, I("br", <<cond_block>>, "void", ""))
       IN  /\ blocks' = InsertInto(bs1, break_blog, activeFn)
           /\ insertBlock' = break_blog
    /\ stack' = Popped
    /\ ret' = Int64Zero
    /\ UNCHANGED <<phase, status, funcs, activeFn, envs, constants, variables,
                   loopStack, fatal, warnings, nextId, forms>>
    /\ UNCHANGED aux

\* the guard of break and continue: m_LOOP_STACK.empty() is the fatal case
LoopStackEmpty(ls) == ls = <<>>

\* "break" (which = "break") and "continue" (which = "continue"): fatal outside
\* a loop; otherwise branch to the top frame's target and go on in a new block
\* after_break / after_continue appended to the active function
BreakContinue(which) ==
    /\ Inner
    /\ Room
    /\ forms' = forms - 1
    /\ IF LoopStackEmpty(loopStack)
       THEN /\ fatal' = "loop_context"
            /\ UNCHANGED <<blocks, insertBlock, stack, ret>>
       ELSE LET loop == loopStack[Len(loopStack)]
                target == IF which = "break" THEN loop.break_blog ELSE loop.continue_block
                after == Len(blocks) + 1
                bs1 == Emit(blocks, insertBlock, I("br", <<target>>, "void", which))
            IN  /\ fatal' = fatal
                /\ blocks' = create_basic_block(bs1, activeFn)
                /\ insertBlock' = after
                /\ stack' = Popped
                /\ ret' = Int64Zero
    /\ UNCHANGED <<phase, status, funcs, activeFn, envs, constants, variables,
                   loopStack, warnings, nextId>>
    /\ UNCHANGED aux

-----------------------------------------------------------------------------
(* generate_expression: check *)

\* "check": generate the condition
CheckEnter ==
    /\ Inner
    /\ Room
    /\ forms' = forms - 1
    /\ stack' = CallWith(Frame("check", 1, Top.env), Top.env)
    /\ UNCHANGED <<phase, status, funcs, blocks, insertBlock, activeFn, envs,
                   constants, variables, loopStack, ret, fatal, warnings, nextId>>
    /\ UNCHANGED aux

\* "check": blocks then (in the function), else and ifend (detached);
\* conditional branch; generate the then branch in then
CheckCond ==
    /\ At("check", 1)
    /\ LET then_block == Len(blocks) + 1
           else_block == Len(blocks) + 2
           if_end_block == Len(blocks) + 3
           bs1 == create_basic_block(create_basic_block(
                      create_basic_block(blocks, activeFn), 0), 0)
       IN  /\ blocks' = Emit(bs1, insertBlock, I("condbr", <<then_block, else_block>>, "void", ""))
           /\ insertBlock' = then_block
           /\ stack' = CallWith([Top EXCEPT !.pc = 2,
                                     !.blks = <<then_block, else_block, if_end_block>>],
                                Top.env)
    /\ UNCHANGED <<phase, status, funcs, activeFn, envs, constants, variables,
                   loopStack, ret, fatal, warnings, nextId, forms>>
    /\ UNCHANGED aux

\* the block check records for a branch: the insertion block after the branch
\* was generated (start is the block the branch began in)
CheckBranchBlock(start, current) == current

\* "check": branch to ifend unless terminated; then_block is re-read from the
\* builder; append else and generate the else branch there
CheckThen ==
    /\ At("check", 2)
    /\ LET else_block == Top.blks[2]
           if_end_block == Top.blks[3]
           bs1 == EmitUnlessTerminated(blocks, insertBlock,
                                       I("br", <<if_end_block>>, "void", ""))
       IN  /\ blocks' = InsertInto(bs1, else_block, activeFn)
           /\ insertBlock' = else_block
           /\ stack' = CallWith([Top EXCEPT !.pc = 3, !.vals = <<ret>>,
                                     !.brs = <<CheckBranchBlock(Top.blks[1], insertBlock)>>],
                                Top.env)
    /\ UNCHANGED <<phase, status, funcs, activeFn, envs, constants, variables,
                   loopStack, ret, fatal, warnings, nextId, forms>>
    /\ UNCHANGED aux

\* what phi->addIncoming(value, block) does with a value whose type is not the
\* phi's: the handler tests nothing; llvm::PHINode::addIncoming asserts the
\* types equal, so a build of LLVM with assertions aborts and one without
\* adds the operand
PhiOutcomes(phi_type, incoming_type) ==
    IF incoming_type = phi_type THEN {"added"} ELSE {"added", "crash"}

\* "check": branch to ifend unless terminated; append ifend; phi of the type of
\* the then value with the two recorded blocks
CheckElse ==
    /\ At("check", 3)
    /\ \E outcome \in PhiOutcomes(Top.vals[1].ty, ret.ty) :
        LET if_end_block == Top.blks[3]
            then_res == Top.vals[1]
            else_res == ret
            then_block == Top.brs[1]
            else_block == CheckBranchBlock(Top.blks[2], insertBlock)
            bs1 == EmitUnlessTerminated(blocks, insertBlock,
                                        I("br", <<if_end_block>>, "void", ""))
            bs2 == InsertInto(bs1, if_end_block, activeFn)
        IN  IF outcome = "added"
            THEN /\ blocks' = Emit(bs2, if_end_block,
                                   I("phi", <<then_block, else_block>>, then_res.ty, "check"))
                 /\ insertBlock' = if_end_block
                 /\ ret' = V("inst", then_res.ty, nextId)
                 /\ nextId' = nextId + 1
                 /\ stack' = Popped
                 /\ fatal' = fatal
            ELSE /\ blocks' = bs2
                 /\ insertBlock' = if_end_block
                 /\ fatal' = outcome
                 /\ UNCHANGED <<ret, nextId, stack>>
    /\ UNCHANGED <<phase, status, funcs, activeFn, envs, constants, variables,
                   loopStack, warnings, forms>>
    /\ UNCHANGED aux

-----------------------------------------------------------------------------
(* generate_expression: if *)

\* An if form is the list of its arms: "pair" (COND BLOCK), "elif"
\* (elif COND BLOCK), "else" (else BLOCK).  exp.list.size() of the form:
RECURSIVE IfSize(_)
IfSize(arms) ==
    IF arms = <<>> THEN 1
    ELSE (IF Head(arms) = "elif" THEN 3 ELSE 2) + IfSize(Tail(arms))

\* the block if records for a then / elif branch: the block the branch began in
IfBranchBlock(start, current) == start

\* the end of the if handler: append the merge block and continue there; with
\* branch values, all must have the type of the first (else fatal) and a phi
\* over the recorded blocks is the result
IfEnd(bs, f) ==
    LET merge_block == f.blks[1]
        first_type == f.vals[1].ty
    IN  /\ insertBlock' = merge_block
        /\ IF f.vals = <<>>
           THEN /\ blocks' = InsertInto(bs, merge_block, activeFn)
                /\ stack' = Popped
                /\ ret' = Int64Zero
                /\ UNCHANGED <<fatal, nextId>>
           ELSE IF \E i \in 1..Len(f.vals) : f.vals[i].ty # first_type
           THEN /\ blocks' = InsertInto(bs, merge_block, activeFn)
                /\ fatal' = "type_mismatch"
                /\ stack' = [stack EXCEPT ![Len(stack)] = f]
                /\ UNCHANGED <<ret, nextId>>
           ELSE /\ blocks' = Emit(InsertInto(bs, merge_block, activeFn), merge_block,
                                  I("phi", f.brs, first_type, "if"))
                /\ stack' = Popped
                /\ ret' = V("inst", first_type, nextId)
                /\ nextId' = nextId + 1
                /\ fatal' = fatal

\* the two while loops of the if handler, at the arm f.arms begins with; f.op
\* is "first" in the loop over the leading pairs and "second" in the loop over
\* elif / else.  bs, ib: the blocks and the insertion block so far.
IfArms(bs, ib, f) ==
    IF f.arms = <<>>
    THEN IfEnd(bs, f)
    ELSE IF Head(f.arms) = "pair" /\ f.op = "second"
    THEN \* "expected elif or else after if conditions"
         /\ fatal' = "malformed"
         /\ blocks' = bs
         /\ insertBlock' = ib
         /\ stack' = [stack EXCEPT ![Len(stack)] = f]
         /\ UNCHANGED <<ret, nextId>>
    ELSE IF Head(f.arms) = "else"
    THEN \* else_block is the insertion block before the branch is generated
         /\ blocks' = bs
         /\ insertBlock' = ib
         /\ stack' = CallWith([f EXCEPT !.pc = 3, !.op = "second",
                                  !.blks = <<f.blks[1], ib>>], f.env)
         /\ UNCHANGED <<ret, fatal, nextId>>
    ELSE \* a pair, or an elif: generate its condition
         /\ blocks' = bs
         /\ insertBlock' = ib
         /\ stack' = CallWith([f EXCEPT !.pc = 1,
                                  !.op = IF Head(f.arms) = "elif" THEN "second" ELSE f.op],
                              f.env)
         /\ UNCHANGED <<ret, fatal, nextId>>

\* "if": fewer than 4 list elements is fatal; else the detached merge block
\* if.end is created and the first arm is taken up
IfEnter(arms) ==
    /\ Inner
    /\ Room
    /\ forms' = forms - 1
    /\ IF IfSize(arms) < 4
       THEN /\ fatal' = "malformed"
            /\ UNCHANGED <<blocks, insertBlock, stack, ret, nextId>>
       ELSE IfArms(create_basic_block(blocks, 0), insertBlock,
                   [Frame("if", 0, Top.env) EXCEPT !.arms = arms, !.op = "first",
                                                   !.blks = <<Len(blocks) + 1>>])
    /\ UNCHANGED <<phase, status, funcs, activeFn, envs, constants, variables,
                   loopStack, warnings>>
    /\ UNCHANGED aux

\* "if": after a condition (of a pair or an elif): blocks then and next (both
\* in the function), conditional branch, generate the branch in then
IfCond ==
    /\ At("if", 1)
    /\ LET then_block == Len(blocks) + 1
           next_block == Len(blocks) + 2
           bs1 == create_basic_block(create_basic_block(blocks, activeFn), activeFn)
       IN  /\ blocks' = Emit(bs1, insertBlock, I("condbr", <<then_block, next_block>>, "void", ""))
           /\ insertBlock' = then_block
           /\ stack' = CallWith([Top EXCEPT !.pc = 2,
                                     !.blks = <<Top.blks[1], then_block, next_block>>],
                                Top.env)
    /\ UNCHANGED <<phase, status, funcs, activeFn, envs, constants, variables,
                   loopStack, ret, fatal, warnings, nextId, forms>>
    /\ UNCHANGED aux

\* "if": after the branch of a pair or an elif: record value and block, branch
\* to the merge block, continue in next with the following arm
IfBody ==
    /\ At("if", 2)
    /\ LET merge_block == Top.blks[1]
           then_block == Top.blks[2]
           next_block == Top.blks[3]
           bs1 == Emit(blocks, insertBlock, I("br", <<merge_block>>, "void", ""))
       IN  IfArms(bs1, next_block,
                  [Top EXCEPT !.vals = Append(@, ret),
                              !.brs = Append(@, IfBranchBlock(then_block, insertBlock)),
                              !.arms = Tail(@)])
    /\ UNCHANGED <<phase, status, funcs, activeFn, envs, constants, variables,
                   loopStack, warnings, forms>>
    /\ UNCHANGED aux

\* "if": after the else branch: record value and else_block, branch to the
\* merge block, leave the loop
IfElse ==
    /\ At("if", 3)
    /\ LET merge_block == Top.blks[1]
           else_block == Top.blks[2]
           bs1 == Emit(blocks, insertBlock, I("br", <<merge_block>>, "void", ""))
       IN  IfEnd(bs1, [Top EXCEPT !.vals = Append(@, ret),
                                  !.brs = Append(@, IfBranchBlock(else_block, insertBlock))])
    /\ UNCHANGED <<phase, status, funcs, activeFn, envs, constants, variables,
                   loopStack, warnings, forms>>
    /\ UNCHANGED aux

-----------------------------------------------------------------------------
(* Types: get_type, extract_var_type, type_to_string *)

\* the primitive tags get_type compares against
PrimitiveTags == {"!int", "!int64", "!int32", "!int16", "!int8", "!str", "!ptr",
                  "!frac", "!bool", "!none"}

\* the array tags that programs use
ArrayTags == {"!array<!int8,2>"}

\* get_type on a tag without the !size: / !ptr< prefixes
get_type(tag) ==
    IF tag \in {"!int", "!int64"} THEN "i64"
    ELSE IF tag = "!int32" THEN "i64"
    ELSE IF tag = "!int16" THEN "i16"
    ELSE IF tag = "!int8" THEN "i8"
    ELSE IF tag \in {"!str", "!ptr"} THEN "ptr"
    ELSE IF tag = "!frac" THEN "double"
    ELSE IF tag = "!bool" THEN "i8"
    ELSE IF tag = "!none" THEN "void"
    ELSE IF tag = "!array<!int8,2>" THEN "[2 x i8]"
    ELSE "i64"

\* the tags with a size constraint that programs use
SizeTags == {"!size:1:!int8", "!size:2:!int16", "!size:8:!int64", "!size:8:!int8"}

\* the text of a type tag, cut into the pieces get_type takes it apart by: the
\* six characters "!size:", the digits, the colon that follows them, the rest
type_string(tag) ==
    CASE tag = "!size:1:!int8" -> <<"!size:", "1", ":", "!int8">>
      [] tag = "!size:2:!int16" -> <<"!size:", "2", ":", "!int16">>
      [] tag = "!size:8:!int64" -> <<"!size:", "8", ":", "!int64">>
      [] tag = "!size:8:!int8" -> <<"!size:", "8", ":", "!int8">>
      [] OTHER -> <<tag>>

\* std::stoull on a text: the number its leading digits spell
stoull(text) ==
    CASE text[1] = "1" -> 1 [] text[1] = "2" -> 2 [] text[1] = "4" -> 4
      [] text[1] = "8" -> 8 [] OTHER -> 0

\* get_type_size: the allocation size in bytes of an IR type
get_type_size(ty) ==
    CASE ty = "i8" -> 1 [] ty = "i16" -> 2 [] ty = "i32" -> 4 [] ty = "i64" -> 8
      [] ty = "double" -> 8 [] ty = "ptr" -> 8 [] OTHER -> 0

\* the !size: case of get_type.  colon_pos = type_string.find(':') is the
\* first colon of the text, the one that ends "!size:" (position 5): the base
\* type substr(colon_pos + 1) is all that follows the prefix, and
\* substr(6, colon_pos - 6), whose length wraps around, is that same text
SizeConstraint(text) ==
    [base_type |-> SubSeq(text, 2, Len(text)), digits |-> SubSeq(text, 2, Len(text))]

\* get_type on the text of a tag: the type, whether the size check was fatal,
\* and whether the unknown-tag warning was printed
RECURSIVE get_type_text(_)
get_type_text(text) ==
    IF Len(text) = 1
    THEN [type |-> get_type(text[1]), fatal |-> FALSE,
          warned |-> text[1] \notin PrimitiveTags \cup ArrayTags]
    ELSE IF text[1] = "!size:"
    THEN LET cut == SizeConstraint(text)
             inner == get_type_text(cut.base_type)
             expected_size == stoull(cut.digits)
             actual_size == get_type_size(inner.type)
         IN  [type |-> inner.type,
              fatal |-> inner.fatal \/ actual_size # expected_size,
              warned |-> inner.warned]
    ELSE [type |-> "i64", fatal |-> FALSE, warned |-> TRUE]

\* extract_var_type: a bare symbol (tag "") is i64, a (NAME TAG) list is get_type(TAG)
extract_var_type(tag) == IF tag = "" THEN "i64" ELSE get_type_text(type_string(tag)).type

\* the size check of get_type ended the process
SizeMismatch(tag) == tag # "" /\ get_type_text(type_string(tag)).fatal

\* the LOG_WARN of get_type for a tag it does not know
TypeWarnings(name, tag) ==
    IF tag = "" \/ ~get_type_text(type_string(tag)).warned THEN {} ELSE {<<"untyped", name>>}

\* utils/convert.hpp type_to_string
type_to_string(ty) ==
    IF ty \in {"i64", "i32", "i16", "i8"} THEN "!int64"
    ELSE IF ty = "ptr" THEN "!str"
    ELSE IF ty = "double" THEN "!frac"
    ELSE IF ty = "i1" THEN "!bool"
    ELSE IF ty = "void" THEN "!none"
    ELSE ty

-----------------------------------------------------------------------------
(* alloc_var *)

\* an alloc_var that defines the name in the enclosing scope
AllocScopeEnclosing(es, e) == IF es[e].parent = 0 THEN e ELSE es[e].parent

\* the scope alloc_var defines the name in: the env it was passed
AllocScope(es, e) == e

\* alloc_var(name, var_type, env) on blocks bs and environments es, with the
\* entry block of the active function and the serial id of the new alloca.
\* env->lookup_by_name(name) runs first: it is fatal when no scope on the path
\* to the root binds name, and otherwise the redeclaration warning is printed.
\* The alloca is appended at the end of the entry block.
alloc_var(bs, es, entry, name, var_type, e, id) ==
    [ok |-> resolve(es, e, name) # 0,
     slot |-> V("alloca", var_type, id),
     blocks |-> Emit(bs, entry, I("alloca", <<id>>, var_type, name)),
     envs |-> define(es, AllocScope(es, e), name, V("alloca", var_type, id)),
     warned |-> {<<"redeclaration", name>>}]

-----------------------------------------------------------------------------
(* generate_expression: func, and compile_function *)

\* the parameter loop of compile_function over the arguments idx+1 .. nargs of
\* the function; st = [blocks, envs, warnings, nextId, fatal]
RECURSIVE ProcessParams(_, _, _, _, _, _, _)
ProcessParams(st, idx, nargs, params, entry, fn_env, ib) ==
    IF idx >= nargs \/ st.fatal # "none" THEN st
    ELSE IF idx >= Len(params) THEN [st EXCEPT !.fatal = "malformed"]
    ELSE IF entry = 0 THEN [st EXCEPT !.fatal = "crash"]
    ELSE LET a == alloc_var(st.blocks, st.envs, entry, params[idx + 1], "i64",
                            fn_env, st.nextId)
         IN  IF ~a.ok THEN [st EXCEPT !.fatal = "undefined"]
             ELSE ProcessParams(
                      [blocks |-> Emit(a.blocks, ib, I("store", <<a.slot.id>>, "i64", "arg")),
                       envs |-> a.envs,
                       warnings |-> st.warnings \cup a.warned,
                       nextId |-> st.nextId + 1,
                       fatal |-> "none"],
                      idx + 1, nargs, params, entry, fn_env, ib)

\* compile_function up to the body: the previous function and insertion block
\* are saved, create_function, fn_env (child of env) binds the name, the
\* parameters get their slots, and the body is generated in fn_env; form tells
\* a form written without a body ("nobody") from one with a body ("")
compile_function(name, params, form) ==
    /\ Inner
    /\ Room
    /\ forms' = forms - 1
    /\ LET c == create_function(name, Len(params), "i64", Top.env)
           fn_env == Len(envs) + 1
           es1 == define(NewEnv(c.envs, Top.env), fn_env, name, V("fn", "ptr", c.fn))
           st == ProcessParams([blocks |-> c.blocks, envs |-> es1, warnings |-> warnings,
                                nextId |-> nextId, fatal |-> "none"],
                               0, c.funcs[c.fn].nargs, params, c.funcs[c.fn].entry,
                               fn_env, c.insert)
       IN  /\ funcs' = c.funcs
           /\ activeFn' = c.fn
           /\ insertBlock' = c.insert
           /\ blocks' = st.blocks
           /\ envs' = st.envs
           /\ warnings' = st.warnings
           /\ nextId' = st.nextId
           /\ fatal' = st.fatal
           /\ stack' = IF st.fatal # "none" THEN stack
                       ELSE CallWith([Frame("func", 1, Top.env) EXCEPT
                                          !.nm = name, !.op = form, !.blks = <<c.fn>>,
                                          !.prevFn = activeFn, !.prevBlock = insertBlock],
                                     fn_env)
    /\ UNCHANGED <<phase, status, constants, variables, loopStack, ret>>
    /\ UNCHANGED aux

\* "func" with a body: (func NAME PARAMS BODY), the list has at least 4 parts
FuncEnter(name, params) == compile_function(name, params, "")

\* the size of the list of a func form
FuncListSize(arrow, body) == 3 + (IF arrow THEN 2 ELSE 0) + (IF body THEN 1 ELSE 0)

\* the element compile_function takes as the body: list[5] after "->", else list[3]
BodyIndex(arrow) == IF arrow THEN 5 ELSE 3

\* exp.list[index] of a list of list_size elements: within the list the
\* element is read; beyond its end the read is undefined, the build crashes
\* or goes on with whatever expression the memory holds
ListRead(list_size, index) == IF index < list_size THEN {"read"} ELSE {"crash", "read"}

\* the guard of "func": fewer than 4 parts is the fatal case
TooFewParts(list_size) == list_size < 4

\* "func" written without a body: (func NAME ()) and (func NAME () -> RET)
FuncNoBody(name, arrow) ==
    \E outcome \in ListRead(FuncListSize(arrow, FALSE), BodyIndex(arrow)) :
        IF TooFewParts(FuncListSize(arrow, FALSE)) \/ outcome = "crash"
        THEN /\ Inner
             /\ Room
             /\ forms' = forms - 1
             /\ fatal' = IF TooFewParts(FuncListSize(arrow, FALSE)) THEN "malformed" ELSE "crash"
             /\ stack' = [stack EXCEPT ![Len(stack)] =
                              [Frame("func", 0, Top.env) EXCEPT !.nm = name, !.op = "nobody"]]
             /\ UNCHANGED <<phase, status, funcs, blocks, insertBlock, activeFn, envs,
                            constants, variables, loopStack, ret, warnings, nextId>>
             /\ UNCHANGED aux
        ELSE compile_function(name, <<>>, "nobody")

\* a compile_function that leaves the compiled function active
RestoredFunctionStays(prev_fn, current) == current

\* the active function compile_function restores: prev_fn
RestoredFunction(prev_fn, current) == prev_fn

\* a compile_function that leaves the insertion point in the function body
RestoredBlockStays(prev_block, current) == current

\* the insertion block compile_function restores: prev_block
RestoredBlock(prev_block, current) == prev_block

\* compile_function after the body: ret of the body's value, the previous
\* insertion block and function are restored; back in the handler the name is
\* defined in env and the function is the form's value
FuncBody ==
    /\ At("func", 1)
    /\ blocks' = Emit(blocks, insertBlock, I("ret", <<>>, ret.ty, ret.k))
    /\ insertBlock' = RestoredBlock(Top.prevBlock, insertBlock)
    /\ activeFn' = RestoredFunction(Top.prevFn, activeFn)
    /\ envs' = define(envs, Top.env, Top.nm, V("fn", "ptr", Top.blks[1]))
    /\ stack' = Popped
    /\ ret' = V("fn", "ptr", Top.blks[1])
    /\ UNCHANGED <<phase, status, funcs, constants, variables, loopStack, fatal,
                   warnings, nextId, forms>>
    /\ UNCHANGED aux

-----------------------------------------------------------------------------
(* generate_expression: var / const *)

\* a var / const guard that looks at m_CONSTANTS only
AlreadyDefinedConstant(name) == name \in DOMAIN constants

\* the guard of var / const: the name is a key of m_CONSTANTS or m_VARIABLES
AlreadyDefined(name) == name \in DOMAIN constants \/ name \in DOMAIN variables

\* "var" / "const": a name already declared is fatal; else generate INIT
VarEnter(op, name, tag) ==
    /\ Inner
    /\ Room
    /\ forms' = forms - 1
    /\ IF AlreadyDefined(name)
       THEN /\ fatal' = "already_defined"
            /\ stack' = [stack EXCEPT ![Len(stack)] =
                             [Frame("var", 0, Top.env) EXCEPT !.op = op, !.nm = name, !.tag = tag]]
       ELSE /\ fatal' = fatal
            /\ stack' = CallWith([Frame("var", 1, Top.env) EXCEPT
                                      !.op = op, !.nm = name, !.tag = tag],
                                 Top.env)
    /\ UNCHANGED <<phase, status, funcs, blocks, insertBlock, activeFn, envs,
                   constants, variables, loopStack, ret, warnings, nextId>>
    /\ UNCHANGED aux

\* the condition under which var / const enters its type validation:
\*   init->getType() != var_type && type_to_string(var_type) == "!int"
\*       || type_to_string(var_type) == "!frac"
VarValidates(init_type, var_type) ==
    \/ (init_type # var_type /\ type_to_string(var_type) = "!int")
    \/ type_to_string(var_type) = "!frac"

\* inside the validation: the implicit int -> frac conversion is the one case
\* that is not fatal
VarConverts(init_type, var_type) == isIntegerTy(init_type) /\ var_type = "double"

\* "var" / "const" after INIT: the declared type (its size check may be
\* fatal), type validation, alloc_var, registration in
\* m_CONSTANTS / m_VARIABLES, store of the (converted) init value
VarInit ==
    /\ At("var", 1)
    /\ LET name == Top.nm
           var_type == extract_var_type(Top.tag)
           validates == VarValidates(ret.ty, var_type)
           converts == VarConverts(ret.ty, var_type)
           bs1 == IF validates /\ converts
                  THEN Emit(blocks, insertBlock, I("sitofp", <<>>, var_type, "castinit"))
                  ELSE blocks
           init == IF validates /\ converts THEN V("inst", var_type, nextId) ELSE ret
           id1 == IF validates /\ converts THEN nextId + 1 ELSE nextId
           a == alloc_var(bs1, envs, funcs[activeFn].entry, name, var_type, Top.env, id1)
       IN  /\ warnings' = warnings \cup TypeWarnings(name, Top.tag)
                              \cup (IF SizeMismatch(Top.tag) \/ (validates /\ ~converts) \/ ~a.ok
                                    THEN {} ELSE a.warned)
           /\ IF SizeMismatch(Top.tag)
              THEN /\ fatal' = "size_mismatch"
                   /\ UNCHANGED <<blocks, envs, constants, variables, stack, ret, nextId>>
              ELSE IF validates /\ ~converts
              THEN /\ fatal' = "type_mismatch"
                   /\ UNCHANGED <<blocks, envs, constants, variables, stack, ret, nextId>>
              ELSE IF ~a.ok
              THEN /\ fatal' = "undefined"
                   /\ blocks' = bs1
                   /\ nextId' = id1
                   /\ UNCHANGED <<envs, constants, variables, stack, ret>>
              ELSE /\ fatal' = fatal
                   /\ blocks' = Emit(a.blocks, insertBlock,
                                     I("store", <<a.slot.id>>, init.ty, Top.op))
                   /\ envs' = a.envs
                   /\ constants' = IF Top.op = "const"
                                   THEN (name :> a.slot) @@ constants ELSE constants
                   /\ variables' = IF Top.op = "const"
                                   THEN variables ELSE (name :> a.slot) @@ variables
                   /\ nextId' = id1 + 2
                   /\ stack' = Popped
                   /\ ret' = V("inst", "void", id1 + 1)
    /\ UNCHANGED <<phase, status, funcs, insertBlock, activeFn, loopStack, forms>>
    /\ UNCHANGED aux

-----------------------------------------------------------------------------
(* generate_expression: set with a symbol target *)

\* a set guard that looks at m_VARIABLES instead of m_CONSTANTS
IsConstantInVariables(name) == name \in DOMAIN variables

\* the guard of set: m_CONSTANTS.count(var_name) != 0
IsConstant(name) == name \in DOMAIN constants

\* "set": a constant target is fatal before anything is generated; else
\* generate VALUE
SetEnter(name) ==
    /\ Inner
    /\ Room
    /\ forms' = forms - 1
    /\ IF IsConstant(name)
       THEN /\ fatal' = "constant_write"
            /\ stack' = [stack EXCEPT ![Len(stack)] =
                             [Frame("set", 0, Top.env) EXCEPT !.nm = name]]
       ELSE /\ fatal' = fatal
            /\ stack' = CallWith([Frame("set", 1, Top.env) EXCEPT !.nm = name], Top.env)
    /\ UNCHANGED <<phase, status, funcs, blocks, insertBlock, activeFn, envs,
                   constants, variables, loopStack, ret, warnings, nextId>>
    /\ UNCHANGED aux

\* "set" after VALUE: lookup of the target (fatal if undefined), the type of
\* its slot (an alloca's allocated type, a global's value type; a function has
\* none and type_to_string(nullptr) ends the process), type validation with
\* the int -> frac conversion, store
SetValue ==
    /\ At("set", 1)
    /\ IF resolve(envs, Top.env, Top.nm) = 0
       THEN /\ fatal' = "undefined"
            /\ UNCHANGED <<blocks, stack, ret, nextId>>
       ELSE LET var_binding == lookup_by_name(envs, Top.env, Top.nm)
                var_type == var_binding.ty
                differs == /\ ret.ty # var_type
                           /\ type_to_string(ret.ty) # type_to_string(var_type)
                converts == isIntegerTy(ret.ty) /\ var_type = "double"
                bs1 == IF differs /\ converts
                       THEN Emit(blocks, insertBlock, I("sitofp", <<>>, var_type, "castset"))
                       ELSE blocks
                value == IF differs /\ converts THEN V("inst", var_type, nextId) ELSE ret
            IN  IF var_binding.k = "fn"
                THEN /\ fatal' = "crash"
                     /\ UNCHANGED <<blocks, stack, ret, nextId>>
                ELSE IF differs /\ ~converts
                THEN /\ fatal' = "type_mismatch"
                     /\ UNCHANGED <<blocks, stack, ret, nextId>>
                ELSE /\ fatal' = fatal
                     /\ blocks' = Emit(bs1, insertBlock,
                                       I("store", <<var_binding.id>>, value.ty, "set"))
                     /\ nextId' = IF differs /\ converts THEN nextId + 2 ELSE nextId + 1
                     /\ stack' = Popped
                     /\ ret' = value
    /\ UNCHANGED <<phase, status, funcs, insertBlock, activeFn, envs, constants,
                   variables, loopStack, warnings, forms>>
    /\ UNCHANGED aux

-----------------------------------------------------------------------------
(* generate_expression: binary operators (codegen/arithmetic.cpp) *)

PlainOperators == {"+", "-", "*", "/", ">", "<", ">=", "<=", "==", "!="}

MangledOperators ==
    {"__PLUS_OPERAND__", "__SUB_OPERAND__", "__MUL_OPERAND__", "__DIV_OPERAND__",
     "__CMPG__", "__CMPL__", "__CMPGE__", "__CMPLE__", "__CMPEQ__", "__CMPNE__"}

\* the operators the walker hands to generate_binary_op
BinaryOperators == PlainOperators \cup MangledOperators

\* ArithmeticCodegen::OP_MAPPING; an operator that is not a key maps to itself
OP_MAPPING(op) ==
    CASE op = "__PLUS_OPERAND__" -> "+"
      [] op = "__SUB_OPERAND__" -> "-"
      [] op = "__MUL_OPERAND__" -> "*"
      [] op = "__DIV_OPERAND__" -> "/"
      [] op = "__CMPG__" -> ">"
      [] op = "__CMPL__" -> "<"
      [] op = "__CMPGE__" -> ">="
      [] op = "__CMPLE__" -> "<="
      [] op = "__CMPEQ__" -> "=="
      [] op = "__CMPNE__" -> "!="
      [] OTHER -> op

\* a get_common_type that looks at the left operand only
get_common_type_left(left_type, right_type) == left_type

\* ArithmeticCodegen::get_common_type: double if either is, else the left type
get_common_type(left_type, right_type) ==
    IF left_type = "double" \/ right_type = "double" THEN "double" ELSE left_type

\* llvm::Type::getIntegerBitWidth
getIntegerBitWidth(ty) ==
    CASE ty = "i1" -> 1 [] ty = "i8" -> 8 [] ty = "i16" -> 16
      [] ty = "i32" -> 32 [] ty = "i64" -> 64 [] OTHER -> 0

\* implicit_cast: the conversion it creates ("" when the value is returned as
\* it is; pointers are opaque, so two pointer types are the same type)
implicit_cast(value_type, target_type) ==
    IF value_type = target_type THEN ""
    ELSE IF isIntegerTy(value_type) /\ target_type = "double" THEN "sitofp"
    ELSE IF isIntegerTy(value_type) /\ isIntegerTy(target_type)
    THEN IF getIntegerBitWidth(value_type) < getIntegerBitWidth(target_type) THEN "zext"
         ELSE IF getIntegerBitWidth(value_type) > getIntegerBitWidth(target_type) THEN "trunc"
         ELSE ""
    ELSE ""

\* the builder call generate_binary_op makes for an operation at the common
\* type ("" when it falls through to return nullptr)
BuilderCall(operation, common_type) ==
    IF common_type = "double"
    THEN CASE operation = "+" -> "fadd" [] operation = "-" -> "fsub"
           [] operation = "*" -> "fmul" [] operation = "/" -> "fdiv"
           [] operation = ">" -> "fcmp ogt" [] operation = "<" -> "fcmp olt"
           [] operation = ">=" -> "fcmp oge" [] operation = "<=" -> "fcmp ole"
           [] operation = "==" -> "fcmp oeq" [] operation = "!=" -> "fcmp one"
           [] OTHER -> ""
    ELSE CASE operation = "+" -> "add" [] operation = "-" -> "sub"
           [] operation = "*" -> "mul" [] operation = "/" -> "sdiv"
           [] operation = ">" -> "icmp sgt" [] operation = "<" -> "icmp slt"
           [] operation = ">=" -> "icmp sge" [] operation = "<=" -> "icmp sle"
           [] operation = "==" -> "icmp eq" [] operation = "!=" -> "icmp ne"
           [] OTHER -> ""

\* the comparison opcodes: their result is the 1-bit predicate
IsCompare(opcode) ==
    opcode \in {"fcmp ogt", "fcmp olt", "fcmp oge", "fcmp ole", "fcmp oeq", "fcmp one",
                "icmp sgt", "icmp slt", "icmp sge", "icmp sle", "icmp eq", "icmp ne"}

\* the value a cast yields: a constant operand is folded by the IRBuilder, any
\* other operand gets an instruction (serial number id)
CastValue(value, cast, target_type, id) ==
    IF cast = "" THEN value
    ELSE IF value.k = "const" THEN V("const", target_type, 0)
    ELSE V("inst", target_type, id)

\* the instructions a cast emits
CastInstrs(value, cast, target_type) ==
    IF cast = "" \/ value.k = "const" THEN <<>>
    ELSE <<I(cast, <<value.ty>>, target_type, "cast")>>

\* ArithmeticCodegen::generate_binary_op: the instructions emitted and the
\* value returned (two constant operands are folded into a constant)
generate_binary_op(op, left, right, id) ==
    LET operation == OP_MAPPING(op)
        common_type == get_common_type(left.ty, right.ty)
        lcast == implicit_cast(left.ty, common_type)
        rcast == implicit_cast(right.ty, common_type)
        linstrs == CastInstrs(left, lcast, common_type)
        l == CastValue(left, lcast, common_type, id)
        rinstrs == CastInstrs(right, rcast, common_type)
        r == CastValue(right, rcast, common_type, id + Len(linstrs))
        opcode == BuilderCall(operation, common_type)
        result_type == IF IsCompare(opcode) THEN "i1" ELSE l.ty
        folded == l.k = "const" /\ r.k = "const"
        casts == linstrs \o rinstrs
    IN  IF opcode = ""
        THEN [instrs |-> casts, value |-> NullV, opcode |-> opcode]
        ELSE IF folded
        THEN [instrs |-> casts, value |-> V("const", result_type, 0), opcode |-> opcode]
        ELSE [instrs |-> Append(casts, I(opcode, <<l.ty, r.ty>>, result_type, "binary")),
              value |-> V("inst", result_type, id + Len(casts)), opcode |-> opcode]

\* a binary operator: generate the left operand
BinaryEnter(op) ==
    /\ Inner
    /\ Room
    /\ forms' = forms - 1
    /\ stack' = CallWith([Frame("binary", 1, Top.env) EXCEPT !.op = op], Top.env)
    /\ UNCHANGED <<phase, status, funcs, blocks, insertBlock, activeFn, envs,
                   constants, variables, loopStack, ret, fatal, warnings, nextId>>
    /\ UNCHANGED aux

\* a binary operator: keep the left value, generate the right operand
BinaryLeft ==
    /\ At("binary", 1)
    /\ stack' = CallWith([Top EXCEPT !.pc = 2, !.vals = <<ret>>], Top.env)
    /\ UNCHANGED <<phase, status, funcs, blocks, insertBlock, activeFn, envs,
                   constants, variables, loopStack, ret, fatal, warnings, nextId, forms>>
    /\ UNCHANGED aux

\* a binary operator: generate_binary_op on the two values
BinaryRight ==
    /\ At("binary", 2)
    /\ LET res == generate_binary_op(Top.op, Top.vals[1], ret, nextId)
       IN  /\ blocks' = [blocks EXCEPT ![insertBlock].instrs = @ \o res.instrs]
           /\ nextId' = nextId + Len(res.instrs)
           /\ ret' = res.value
    /\ stack' = Popped
    /\ UNCHANGED <<phase, status, funcs, insertBlock, activeFn, envs, constants,
                   variables, loopStack, fatal, warnings, forms>>
    /\ UNCHANGED aux

-----------------------------------------------------------------------------
(* generate_expression: finput *)

\* the first loop of finput: a name bound nowhere ends the process in
\* lookup_by_name; every bound value (a slot, a global, a function) has
\* pointer type, so the loop stops at the first variable
FinputUndefined(es, e, args) == args # <<>> /\ resolve(es, e, args[1]) = 0

\* has_string_input: some variable is bound to a value of pointer type
has_string_input(args) == args # <<>>

\* the block finput creates a 256-byte input buffer in: CreateAlloca on
\* m_IR_BUILDER, at the insertion point
BufferBlock(entry, current) == current

\* the second loop of finput over the variables from position idx + 1 on: a
\* buffer, and a store of its address into the variable; st = [blocks,
\* nextId, fatal]
RECURSIVE FinputBuffers(_, _, _, _, _, _)
FinputBuffers(st, idx, args, es, e, where) ==
    IF idx >= Len(args) \/ st.fatal # "none" THEN st
    ELSE IF resolve(es, e, args[idx + 1]) = 0 THEN [st EXCEPT !.fatal = "undefined"]
    ELSE LET var_ptr == lookup_by_name(es, e, args[idx + 1])
             bs1 == Emit(st.blocks, where,
                         I("alloca", <<st.nextId>>, "[256 x i8]", "input_buffer"))
             bs2 == Emit(bs1, insertBlock, I("store", <<var_ptr.id>>, "ptr", "finput"))
         IN  FinputBuffers([blocks |-> bs2, nextId |-> st.nextId + 2, fatal |-> "none"],
                           idx + 1, args, es, e, where)

\* "finput" with the variables args: buffers, the call of scanf, and with a
\* string input the loop clean_loop / clean_end that reads up to the newline
Finput(args) ==
    /\ Inner
    /\ Room
    /\ forms' = forms - 1
    /\ IF FinputUndefined(envs, Top.env, args)
       THEN /\ fatal' = "undefined"
            /\ UNCHANGED <<blocks, insertBlock, nextId, stack, ret>>
       ELSE LET st == FinputBuffers([blocks |-> blocks, nextId |-> nextId, fatal |-> "none"],
                                    0, args, envs, Top.env,
                                    BufferBlock(funcs[activeFn].entry, insertBlock))
                scanf_call == V("inst", "i64", st.nextId)
                bs1 == Emit(st.blocks, insertBlock, I("call", <<>>, "i64", "scanf"))
                loop_block == Len(blocks) + 1
                end_block == Len(blocks) + 2
                bs2 == create_basic_block(create_basic_block(bs1, activeFn), activeFn)
                bs3 == Emit(bs2, insertBlock, I("br", <<loop_block>>, "void", ""))
                bs4 == [bs3 EXCEPT ![loop_block].instrs =
                           <<I("call", <<>>, "i64", "getchar"),
                             I("icmp eq", <<>>, "i1", "is_newline"),
                             I("icmp eq", <<>>, "i1", "is_eof"),
                             I("or", <<>>, "i1", "break_cond"),
                             I("condbr", <<end_block, loop_block>>, "void", "")>>]
            IN  IF st.fatal # "none"
                THEN /\ fatal' = st.fatal
                     /\ blocks' = st.blocks
                     /\ nextId' = st.nextId
                     /\ UNCHANGED <<insertBlock, stack, ret>>
                ELSE /\ fatal' = fatal
                     /\ stack' = Popped
                     /\ ret' = scanf_call
                     /\ IF has_string_input(args)
                        THEN /\ blocks' = bs4
                             /\ insertBlock' = end_block
                             /\ nextId' = st.nextId + 5
                        ELSE /\ blocks' = bs1
                             /\ insertBlock' = insertBlock
                             /\ nextId' = st.nextId + 1
    /\ UNCHANGED <<phase, status, funcs, activeFn, envs, constants, variables,
                   loopStack, warnings>>
    /\ UNCHANGED aux

-----------------------------------------------------------------------------
(* generate_expression: array, and set with an index target *)

\* llvm::Type::isArrayTy
isArrayTy(ty) == ty \in {"[2 x i8]"}

\* llvm::ArrayType::getElementType
getElementType(ty) == IF ty = "[2 x i8]" THEN "i8" ELSE ty

\* m_ARRAY_TYPES: var / const records the declared type of a name when it is
\* an array type, before it registers the name in m_CONSTANTS / m_VARIABLES;
\* a name is declared once, so the map is read off the two name maps
m_ARRAY_TYPES ==
    [n \in {m \in DOMAIN constants : isArrayTy(constants[m].ty)} \cup
            {m \in DOMAIN variables : isArrayTy(variables[m].ty)} |->
        IF n \in DOMAIN constants THEN constants[n].ty ELSE variables[n].ty]

\* "array" over two integer literals: the elements are constants of one type,
\* the value is the constant array
ArrayLiteral ==
    /\ Inner
    /\ Room
    /\ forms' = forms - 1
    /\ stack' = Popped
    /\ ret' = V("const", "[2 x i8]", 0)
    /\ UNCHANGED <<phase, status, funcs, blocks, insertBlock, activeFn, envs,
                   constants, variables, loopStack, fatal, warnings, nextId>>
    /\ UNCHANGED aux

\* the guard of set with an index target: the array must be in m_ARRAY_TYPES;
\* m_CONSTANTS is not looked at
IndexTargetRefused(name) == name \notin DOMAIN m_ARRAY_TYPES

\* "set" with the target (index NAME IDX): the array is looked up, then IDX
\* is generated
SetIndexEnter(name) ==
    /\ Inner
    /\ Room
    /\ forms' = forms - 1
    /\ IF IndexTargetRefused(name)
       THEN /\ fatal' = "array_not_found"
            /\ stack' = [stack EXCEPT ![Len(stack)] =
                             [Frame("setindex", 0, Top.env) EXCEPT !.nm = name]]
       ELSE IF resolve(envs, Top.env, name) = 0
       THEN /\ fatal' = "undefined"
            /\ stack' = [stack EXCEPT ![Len(stack)] =
                             [Frame("setindex", 0, Top.env) EXCEPT !.nm = name]]
       ELSE /\ fatal' = fatal
            /\ stack' = CallWith([Frame("setindex", 1, Top.env) EXCEPT
                                      !.nm = name,
                                      !.vals = <<lookup_by_name(envs, Top.env, name)>>],
                                 Top.env)
    /\ UNCHANGED <<phase, status, funcs, blocks, insertBlock, activeFn, envs,
                   constants, variables, loopStack, ret, warnings, nextId>>
    /\ UNCHANGED aux

\* "set" with an index target, after IDX: generate VALUE
SetIndexIndex ==
    /\ At("setindex", 1)
    /\ stack' = CallWith([Top EXCEPT !.pc = 2, !.vals = Append(@, ret)], Top.env)
    /\ UNCHANGED <<phase, status, funcs, blocks, insertBlock, activeFn, envs,
                   constants, variables, loopStack, ret, fatal, warnings, nextId, forms>>
    /\ UNCHANGED aux

\* "set" with an index target, after VALUE: the index must be an integer; the
\* element address, the value cast to the element type, the store
SetIndexValue ==
    /\ At("setindex", 2)
    /\ LET array_ptr == Top.vals[1]
           index_val == Top.vals[2]
           element_type == getElementType(m_ARRAY_TYPES[Top.nm])
           cast == implicit_cast(ret.ty, element_type)
           gep == <<I("gep", <<array_ptr.id>>, "ptr", "setptr")>>
           value == CastValue(ret, cast, element_type, nextId + 1)
           casts == CastInstrs(ret, cast, element_type)
           store == <<I("store", <<array_ptr.id>>, value.ty, "setindex")>>
       IN  IF ~isIntegerTy(index_val.ty)
           THEN /\ fatal' = "type_mismatch"
                /\ UNCHANGED <<blocks, nextId, stack, ret>>
           ELSE /\ fatal' = fatal
                /\ blocks' = [blocks EXCEPT ![insertBlock].instrs = @ \o gep \o casts \o store]
                /\ nextId' = nextId + 2 + Len(casts)
                /\ stack' = Popped
                /\ ret' = value
    /\ UNCHANGED <<phase, status, funcs, insertBlock, activeFn, envs, constants,
                   variables, loopStack, warnings, forms>>
    /\ UNCHANGED aux

-----------------------------------------------------------------------------
(* generate_expression: mem-alloc, mem-free *)

\* the declarations mem-alloc and mem-free create: malloc(i64) -> i8*, free(i8*)
HeapFunction(name) ==
    [name |-> name, entry |-> 0, nargs |-> 1, rty |-> IF name = "malloc" THEN "ptr" ELSE "void"]

\* m_MODULE->getFunction(name) and, when it is null, Function::Create
HeapFunctions(fs, name) ==
    IF getFunction(fs, name) # 0 THEN fs ELSE Append(fs, HeapFunction(name))

\* the parameter types of a function of the module: free takes a pointer,
\* malloc and the functions of func forms take i64 values
ParamTypes(f) ==
    [i \in 1..f.nargs |-> IF f.entry = 0 /\ f.name = "free" THEN "ptr" ELSE "i64"]

\* CreateCall(fn, args): with arguments that are not the parameters of the
\* function an assert-enabled build stops, another build emits the call
CallOutcomes(f, arg_types) ==
    IF ParamTypes(f) = arg_types THEN {"call"} ELSE {"call", "crash"}

\* "mem-alloc" and "mem-free": generate the argument
HeapEnter(oper) ==
    /\ Inner
    /\ Room
    /\ forms' = forms - 1
    /\ stack' = CallWith([Frame("heap", 1, Top.env) EXCEPT !.op = oper], Top.env)
    /\ UNCHANGED <<phase, status, funcs, blocks, insertBlock, activeFn, envs,
                   constants, variables, loopStack, ret, fatal, warnings, nextId>>
    /\ UNCHANGED aux

\* "mem-alloc" and "mem-free" after the argument: the function is looked up,
\* declared when the module has none of that name, and called
HeapCall ==
    /\ At("heap", 1)
    /\ LET name == IF Top.op = "mem-alloc" THEN "malloc" ELSE "free"
           fs == HeapFunctions(funcs, name)
           fn == getFunction(fs, name)
       IN  /\ funcs' = fs
           /\ \E outcome \in CallOutcomes(fs[fn], <<ret.ty>>) :
                  IF outcome = "crash"
                  THEN /\ fatal' = "crash"
                       /\ UNCHANGED <<blocks, nextId, stack, ret>>
                  ELSE /\ fatal' = fatal
                       /\ blocks' = Emit(blocks, insertBlock,
                                         I("call", <<fn>>, fs[fn].rty, name))
                       /\ nextId' = nextId + 1
                       /\ stack' = Popped
                       /\ ret' = IF Top.op = "mem-alloc"
                                 THEN V("inst", "ptr", nextId + 1)
                                 ELSE Int64Zero
    /\ UNCHANGED <<phase, status, insertBlock, activeFn, envs, constants,
                   variables, loopStack, warnings, forms>>
    /\ UNCHANGED aux

-----------------------------------------------------------------------------
(* The traceback: safe_expr_to_string, add_expression_to_traceback_stack,
   Logger::push_expression.  A text is a sequence of characters. *)

\* the concatenation of the texts of a sequence
RECURSIVE Concat(_)
Concat(texts) == IF texts = <<>> THEN <<>> ELSE Head(texts) \o Concat(Tail(texts))

\* a text of n characters c
Repeat(c, n) == [k \in 1..n |-> c]

\* the decimal digits of a natural number
RECURSIVE Digits(_)
Digits(n) ==
    IF n < 10 THEN <<CHOOSE d \in {"0", "1", "2", "3", "4", "5", "6", "7", "8", "9"} :
                       d = ToString(n)>>
    ELSE Digits(n \div 10) \o Digits(n % 10)

\* std::to_string of an integer
to_string(number) == IF number < 0 THEN <<"-">> \o Digits(0 - number) ELSE Digits(number)

\* std::to_string of the double 10^exponent: all the digits of the whole part
\* and six decimals
to_string_double(exponent) == <<"1">> \o Repeat("0", exponent) \o <<".">> \o Repeat("0", 6)

\* boost::replace_all(str, "\n", "\\n"): a newline becomes backslash and n
RECURSIVE replace_all(_)
replace_all(str) ==
    IF \A k \in 1..Len(str) : str[k] # "\n" THEN str
    ELSE (IF Head(str) = "\n" THEN <<"\\", "n">> ELSE <<Head(str)>>) \o replace_all(Tail(str))

\* the length beyond which safe_expr_to_string cuts the text of a list
TrimLength == 120

\* the characters it keeps before the ellipsis
TrimKept == 117

\* the cut of a long text of a list: substr(0, 117) + "..."
Trim(text) ==
    IF Len(text) > TrimLength THEN SubSeq(text, 1, TrimKept) \o <<".", ".", ".">> ELSE text

\* the cut safe_expr_to_string applies to the text of a symbol, a number, a
\* fractional or a string literal: none
TrimValue(text) == text

\* safe_expr_to_string
RECURSIVE safe_expr_to_string(_)
safe_expr_to_string(exp) ==
    IF exp.type = "LIST"
    THEN IF exp.list = <<>> THEN <<"[", "]">>
         ELSE LET parts == [k \in 1..Len(exp.list) |->
                               safe_expr_to_string(exp.list[k]) \o <<" ">>]
                  joined == <<"[">> \o Concat(parts)
              IN  Trim(SubSeq(joined, 1, Len(joined) - 1) \o <<"]">>)
    ELSE IF exp.type = "SYMBOL" THEN TrimValue(exp.string)
    ELSE IF exp.type = "NUMBER" THEN TrimValue(to_string(exp.number))
    ELSE IF exp.type = "FRACTIONAL" THEN TrimValue(to_string_double(exp.exponent))
    ELSE IF exp.type = "STRING"
    THEN TrimValue(replace_all(<<"\"">> \o exp.string \o <<"\"">>))
    ELSE <<"<", "?", ">">>

\* the context add_expression_to_traceback_stack records with the text: for
\* a list the text of its head symbol
Context(exp) ==
    IF exp.type = "LIST" /\ exp.list # <<>>
    THEN IF exp.list[1].type = "SYMBOL" THEN exp.list[1].string ELSE "list"
    ELSE IF exp.type = "LIST" THEN "expr"
    ELSE IF exp.type = "SYMBOL" THEN "symbol"
    ELSE IF exp.type = "NUMBER" THEN "number"
    ELSE IF exp.type = "FRACTIONAL" THEN "fractional"
    ELSE "string"

\* Logger::MAX_STACK_SIZE
MAX_STACK_SIZE == 100

\* Logger::push_expression: append, and drop the oldest entry beyond
\* MAX_STACK_SIZE
push_expression(stk, context, expr) ==
    LET appended == Append(stk, <<context, expr>>)
    IN  IF Len(appended) > MAX_STACK_SIZE THEN Tail(appended) ELSE appended

\* expressions
SymbolExp(text) == [type |-> "SYMBOL", string |-> text]
NumberExp(number) == [type |-> "NUMBER", number |-> number]
FractionalExp(exponent) == [type |-> "FRACTIONAL", exponent |-> exponent]
StringExp(text) == [type |-> "STRING", string |-> text]
ListExp(list) == [type |-> "LIST", list |-> list]
UnknownExp == [type |-> "?"]

\* add_expression_to_traceback_stack(exp), the first statement of
\* generate_expression: the text "<?>" is not recorded
add_expression_to_traceback_stack(exp) ==
    /\ Len(expression_stack_) < MaxRecorded
    /\ LET EXPR_STR == safe_expr_to_string(exp)
       IN  expression_stack_' =
               IF EXPR_STR = <<"<", "?", ">">> THEN expression_stack_
               ELSE push_expression(expression_stack_, Context(exp), EXPR_STR)
    /\ UNCHANGED <<phase, status, funcs, blocks, insertBlock, activeFn, envs, constants,
                   variables, loopStack, stack, ret, fatal, warnings, nextId, forms,
                   format_exp, string_input, format_str, argv, arg_index,
                   m_PARSED_VALUES, m_POSITIONAL_ARGS, m_ERRORS>>

-----------------------------------------------------------------------------
(* finput: the format string.  Positions are those of std::string, from 0. *)

\* std::string::npos
npos == 0 - 1

\* text.find("%s", pos): the first position from pos on where "%s" begins
find(text, pos) ==
    LET found == {k \in pos..(Len(text) - 2) : text[k + 1] = "%" /\ text[k + 2] = "s"}
    IN  IF found = {} THEN npos ELSE CHOOSE k \in found : \A j \in found : k <= j

\* the scan-set written in place of "%s": % [ ^ newline ]
ScanSet == <<"%", "[", "^", "\n", "]">>

\* the distance the loop moves on after a replacement: pos += 6
Advance == 6

\* text.replace(pos, 2, scan-set)
replace(text, pos) == SubSeq(text, 1, pos) \o ScanSet \o SubSeq(text, pos + 3, Len(text))

\* the rewriting loop, from position pos: while "%s" is found from pos on,
\* replace it and move on
RECURSIVE RewriteFrom(_, _)
RewriteFrom(text, pos) ==
    LET at == find(text, pos)
    IN  IF at = npos THEN text ELSE RewriteFrom(replace(text, at), at + Advance)

\* finput up to CreateGlobalStringPtr(format_str): the format is the text of
\* the argument, rewritten when some target is treated as a string
FinputFormat(text, strings) ==
    /\ format_exp' = text
    /\ string_input' = strings
    /\ format_str' = IF strings /\ find(text, 0) # npos THEN RewriteFrom(text, 0) ELSE text
    /\ UNCHANGED <<phase, status, funcs, blocks, insertBlock, activeFn, envs, constants,
                   variables, loopStack, stack, ret, fatal, warnings, nextId, forms,
                   expression_stack_, argv, arg_index, m_PARSED_VALUES,
                   m_POSITIONAL_ARGS, m_ERRORS>>

-----------------------------------------------------------------------------
(* InputParser (input_parser.cpp).  A token is a sequence of characters;
   argv holds argv[1] .. argv[argc - 1], and arg_index is the loop index i. *)

\* the options registered with add_option, in order: m_OPTIONS
m_OPTIONS ==
    << [short_name |-> <<"-", "o">>, long_name |-> <<"-", "-", "o">>,
        requires_argument |-> TRUE],
       [short_name |-> <<"-", "k">>, long_name |-> <<"-", "-", "k">>,
        requires_argument |-> FALSE] >>

\* m_SHORT_MAP.find(name) and m_LONG_MAP.find(name): the index of the option,
\* 0 for end()
FindShort(name) ==
    IF \E k \in 1..Len(m_OPTIONS) : m_OPTIONS[k].short_name = name
    THEN CHOOSE k \in 1..Len(m_OPTIONS) : m_OPTIONS[k].short_name = name
    ELSE 0

FindLong(name) ==
    IF \E k \in 1..Len(m_OPTIONS) : m_OPTIONS[k].long_name = name
    THEN CHOOSE k \in 1..Len(m_OPTIONS) : m_OPTIONS[k].long_name = name
    ELSE 0

\* token.substr(0, 2) == "--"
TwoDashes(token) == Len(token) >= 2 /\ token[1] = "-" /\ token[2] = "-"

\* token.find('='): the position from 1, 0 when there is none
FindEquals(token) ==
    LET found == {k \in 1..Len(token) : token[k] = "="}
    IN  IF found = {} THEN 0 ELSE CHOOSE k \in found : \A j \in found : k <= j

\* is_equals_syntax_option
is_equals_syntax_option(token) == TwoDashes(token) /\ FindEquals(token) # 0

\* is_regular_option
is_regular_option(token) == token # <<>> /\ token[1] = "-"

\* m_PARSED_VALUES[idx] = value
SetParsed(values, idx, value) ==
    [k \in DOMAIN values \cup {idx} |-> IF k = idx THEN value ELSE values[k]]

\* the index handle_regular_option leaves in i when the option has taken
\* argv[++index] and returns advance_index = false: the position of the value
\* (positions from 1: at is the position of the option)
IndexAfterArgument(at) == at + 1

\* parse(argc, argv): reset_state and i = 1
parse_begin(tokens) ==
    /\ arg_index = 0
    /\ argv = <<>>
    /\ tokens # <<>>
    /\ argv' = tokens
    /\ arg_index' = 1
    /\ m_PARSED_VALUES' = <<>>
    /\ m_POSITIONAL_ARGS' = <<>>
    /\ m_ERRORS' = <<>>
    /\ UNCHANGED <<phase, status, funcs, blocks, insertBlock, activeFn, envs, constants,
                   variables, loopStack, stack, ret, fatal, warnings, nextId, forms,
                   expression_stack_, format_exp, string_input, format_str>>

\* handle_equals_syntax(token), one pass of the loop
handle_equals_syntax ==
    /\ arg_index \in 1..Len(argv)
    /\ is_equals_syntax_option(argv[arg_index])
    /\ LET token == argv[arg_index]
           pos == FindEquals(token)
           key == SubSeq(token, 1, pos - 1)
           value == SubSeq(token, pos + 1, Len(token))
           idx == FindLong(key)
       IN  IF idx # 0 /\ m_OPTIONS[idx].requires_argument
           THEN /\ m_PARSED_VALUES' = SetParsed(m_PARSED_VALUES, idx, value)
                /\ m_ERRORS' = m_ERRORS
           ELSE /\ m_ERRORS' = Append(m_ERRORS, <<IF idx # 0 THEN "no argument"
                                                   ELSE "unknown", key>>)
                /\ m_PARSED_VALUES' = m_PARSED_VALUES
    /\ arg_index' = arg_index + 1
    /\ UNCHANGED <<phase, status, funcs, blocks, insertBlock, activeFn, envs, constants,
                   variables, loopStack, stack, ret, fatal, warnings, nextId, forms,
                   expression_stack_, format_exp, string_input, format_str, argv,
                   m_POSITIONAL_ARGS>>

\* handle_regular_option(token, i, argc, argv), one pass of the loop
handle_regular_option ==
    /\ arg_index \in 1..Len(argv)
    /\ ~is_equals_syntax_option(argv[arg_index])
    /\ is_regular_option(argv[arg_index])
    /\ LET token == argv[arg_index]
           idx == IF TwoDashes(token) THEN FindLong(token) ELSE FindShort(token)
       IN  IF idx = 0
           THEN /\ m_ERRORS' = Append(m_ERRORS, <<"unknown", token>>)
                /\ arg_index' = arg_index + 1
                /\ m_PARSED_VALUES' = m_PARSED_VALUES
           ELSE IF ~m_OPTIONS[idx].requires_argument
           THEN /\ m_PARSED_VALUES' = SetParsed(m_PARSED_VALUES, idx, <<>>)
                /\ arg_index' = arg_index + 1
                /\ m_ERRORS' = m_ERRORS
           ELSE IF arg_index + 1 > Len(argv)
           THEN /\ m_ERRORS' = Append(m_ERRORS, <<"missing", token>>)
                /\ arg_index' = arg_index + 1
                /\ m_PARSED_VALUES' = m_PARSED_VALUES
           ELSE /\ m_PARSED_VALUES' = SetParsed(m_PARSED_VALUES, idx, argv[arg_index + 1])
                /\ arg_index' = IndexAfterArgument(arg_index)
                /\ m_ERRORS' = m_ERRORS
    /\ UNCHANGED <<phase, status, funcs, blocks, insertBlock, activeFn, envs, constants,
                   variables, loopStack, stack, ret, fatal, warnings, nextId, forms,
                   expression_stack_, format_exp, string_input, format_str, argv,
                   m_POSITIONAL_ARGS>>

\* handle_positional_arg(token), one pass of the loop
handle_positional_arg ==
    /\ arg_index \in 1..Len(argv)
    /\ ~is_equals_syntax_option(argv[arg_index])
    /\ ~is_regular_option(argv[arg_index])
    /\ m_POSITIONAL_ARGS' = Append(m_POSITIONAL_ARGS, argv[arg_index])
    /\ arg_index' = arg_index + 1
    /\ UNCHANGED <<phase, status, funcs, blocks, insertBlock, activeFn, envs, constants,
                   variables, loopStack, stack, ret, fatal, warnings, nextId, forms,
                   expression_stack_, format_exp, string_input, format_str, argv,
                   m_PARSED_VALUES, m_ERRORS>>

\* parse has returned; its value is m_ERRORS.empty()
parse_returned == arg_index > Len(argv) /\ argv # <<>>

-----------------------------------------------------------------------------
(* Programs and specifications *)

\* the shapes of if forms generated
IfShapes == { <<"pair">>, <<"pair", "else">>, <<"pair", "pair">>,
              <<"pair", "elif">>, <<"pair", "elif", "else">> }

\* names used by var / const / set / symbols: _VERSION is bound in the global
\* scope, f is bound once a func f has been compiled, x is bound nowhere
Names == {"_VERSION", "f", "x"}

\* declared type tags of the typed var / const declarations
Tags == {"!int8", "!frac", "!str"}

\* the scope form
ScopeForm == ScopeEnter \/ ScopeNext \/ ScopeExit

\* control flow forms
ControlForms ==
    \/ LoopEnter \/ LoopNext \/ LoopExit
    \/ WhileEnter \/ WhileCond \/ WhileBody
    \/ ForEnter \/ ForInit \/ ForCond \/ ForBody \/ ForStep
    \/ \E which \in {"break", "continue"} : BreakContinue(which)
    \/ CheckEnter \/ CheckCond \/ CheckThen \/ CheckElse
    \/ \E arms \in IfShapes : IfEnter(arms)
    \/ IfCond \/ IfBody \/ IfElse

\* programs of control flow forms, scope, func (named f or main) and numbers
NextControl ==
    \/ generate_ir_begin(MaxControlForms)
    \/ generate_ir_end
    \/ ScopeForm
    \/ ControlForms
    \/ Number("i8")
    \/ \E name \in {"f", "main"} : FuncEnter(name, <<>>)
    \/ FuncBody

SpecControl == Init /\ [][NextControl]_vars

\* programs of control flow forms, scope and numbers alone
NextBranch ==
    \/ generate_ir_begin(MaxControlForms)
    \/ generate_ir_end
    \/ ScopeForm
    \/ ControlForms
    \/ Number("i8")

SpecBranch == Init /\ [][NextBranch]_vars

\* programs of var, const, set, symbols, scope, func f and numbers
NextEnv ==
    \/ generate_ir_begin(MaxEnvForms)
    \/ generate_ir_end
    \/ ScopeForm
    \/ Number("i8")
    \/ \E name \in Names : Symbol(name)
    \/ \E op \in {"var", "const"}, name \in Names : VarEnter(op, name, "")
    \/ VarInit
    \/ \E name \in Names : SetEnter(name)
    \/ SetValue
    \/ FuncEnter("f", <<>>)
    \/ FuncBody

SpecEnv == Init /\ [][NextEnv]_vars

\* programs of typed var / const declarations of _VERSION with literal
\* initialisers
NextTypes ==
    \/ generate_ir_begin(MaxTypeForms)
    \/ generate_ir_end
    \/ ScopeForm
    \/ Number("i8")
    \/ Fractional
    \/ String
    \/ \E op \in {"var", "const"}, tag \in Tags : VarEnter(op, "_VERSION", tag)
    \/ VarInit

SpecTypes == Init /\ [][NextTypes]_vars

\* programs of assignments to _VERSION (the global i64, or a slot a typed var
\* has redeclared it with) with literal values
NextSet ==
    \/ generate_ir_begin(MaxSetForms)
    \/ generate_ir_end
    \/ ScopeForm
    \/ \E ty \in {"i8", "i64"} : Number(ty)
    \/ Fractional
    \/ String
    \/ \E tag \in Tags : VarEnter("var", "_VERSION", tag)
    \/ VarInit
    \/ SetEnter("_VERSION")
    \/ SetValue

SpecSet == Init /\ [][NextSet]_vars

\* programs of binary operators over literals and loads of _VERSION
NextArith ==
    \/ generate_ir_begin(MaxArithForms)
    \/ generate_ir_end
    \/ ScopeForm
    \/ Number("i8")
    \/ Fractional
    \/ Symbol("_VERSION")
    \/ \E op \in BinaryOperators : BinaryEnter(op)
    \/ BinaryLeft
    \/ BinaryRight

SpecArith == Init /\ [][NextArith]_vars

\* a tag get_type does not know
UnknownTags == {"!word"}

\* programs of one declaration of _VERSION with a type tag and the literal 1
NextResolve ==
    \/ generate_ir_begin(MaxResolveForms)
    \/ generate_ir_end
    \/ ScopeForm
    \/ Number("i8")
    \/ \E op \in {"var", "const"}, tag \in PrimitiveTags \cup UnknownTags \cup SizeTags :
           VarEnter(op, "_VERSION", tag)
    \/ VarInit

SpecResolve == Init /\ [][NextResolve]_vars

\* programs of check forms over integer and fractional literals
NextCheck ==
    \/ generate_ir_begin(MaxCheckForms)
    \/ generate_ir_end
    \/ ScopeForm
    \/ Number("i8")
    \/ Fractional
    \/ CheckEnter \/ CheckCond \/ CheckThen \/ CheckElse

SpecCheck == Init /\ [][NextCheck]_vars

\* the variable lists of the finput forms generated
FinputArgs == {<<>>, <<"_VERSION">>, <<"x">>}

\* programs of the forms that allocate stack slots (var, func with a
\* parameter, finput) inside and outside loop
NextAlloca ==
    \/ generate_ir_begin(MaxAllocaForms)
    \/ generate_ir_end
    \/ ScopeForm
    \/ Number("i8")
    \/ LoopEnter \/ LoopNext \/ LoopExit
    \/ VarEnter("var", "_VERSION", "")
    \/ VarInit
    \/ \E args \in FinputArgs : Finput(args)
    \/ \E params \in {<<>>, <<"_VERSION">>} : FuncEnter("f", params)
    \/ FuncBody

SpecAlloca == Init /\ [][NextAlloca]_vars

\* programs of array declarations of _VERSION and assignments to its elements
NextArray ==
    \/ generate_ir_begin(MaxArrayForms)
    \/ generate_ir_end
    \/ ScopeForm
    \/ Number("i8")
    \/ ArrayLiteral
    \/ \E op \in {"var", "const"}, tag \in ArrayTags : VarEnter(op, "_VERSION", tag)
    \/ VarInit
    \/ SetIndexEnter("_VERSION")
    \/ SetIndexIndex
    \/ SetIndexValue

SpecArray == Init /\ [][NextArray]_vars

\* programs of func forms named f, with and without a body
NextFunc ==
    \/ generate_ir_begin(MaxFuncForms)
    \/ generate_ir_end
    \/ ScopeForm
    \/ Number("i8")
    \/ LoopEnter \/ LoopNext \/ LoopExit
    \/ FuncEnter("f", <<>>)
    \/ \E arrow \in BOOLEAN : FuncNoBody("f", arrow)
    \/ FuncBody

SpecFunc == Init /\ [][NextFunc]_vars

\* programs of mem-alloc and mem-free forms, with func forms named malloc
NextMem ==
    \/ generate_ir_begin(MaxMemForms)
    \/ generate_ir_end
    \/ ScopeForm
    \/ \E ty \in {"i8", "i64"} : Number(ty)
    \/ \E oper \in {"mem-alloc", "mem-free"} : HeapEnter(oper)
    \/ HeapCall
    \/ FuncEnter("malloc", <<>>)
    \/ FuncBody

SpecMem == Init /\ [][NextMem]_vars

\* the expressions handed to the dispatcher: values short and long, lists
\* empty, short, long and nested
TracebackExpressions ==
    LET short == SymbolExp(<<"x">>)
        half == SymbolExp(Repeat("a", 60))
    IN  {short, half, SymbolExp(Repeat("a", 120)), SymbolExp(Repeat("a", 121)),
         NumberExp(0), NumberExp(42), NumberExp(0 - 1234567),
         FractionalExp(0), FractionalExp(130),
         StringExp(<<"a">>), StringExp(<<"a", "\n">>), StringExp(Repeat("a", 119)),
         ListExp(<<>>), ListExp(<<short, NumberExp(42)>>), ListExp(<<half, half>>),
         ListExp(<<ListExp(<<half, half>>), short>>),
         ListExp(<<NumberExp(0), SymbolExp(Repeat("a", 121))>>),
         UnknownExp}

\* the dispatcher recording the expressions it is called with
NextTraceback == \E exp \in TracebackExpressions : add_expression_to_traceback_stack(exp)

SpecTraceback == Init /\ [][NextTraceback]_vars

\* the characters of the format strings
FormatCharacters == {"%", "s", " "}

\* the format strings of up to MaxFormatLength characters
Formats == UNION {[1..n -> FormatCharacters] : n \in 0..MaxFormatLength}

\* finput forms with these formats, with and without a string target
NextFormat == \E text \in Formats, strings \in BOOLEAN : FinputFormat(text, strings)

SpecFormat == Init /\ [][NextFormat]_vars

\* programs of loop, while, func f, break and continue
NextBreak ==
    \/ generate_ir_begin(MaxBreakForms)
    \/ generate_ir_end
    \/ ScopeForm
    \/ Number("i8")
    \/ LoopEnter \/ LoopNext \/ LoopExit
    \/ WhileEnter \/ WhileCond \/ WhileBody
    \/ \E which \in {"break", "continue"} : BreakContinue(which)
    \/ FuncEnter("f", <<>>)
    \/ FuncBody

SpecBreak == Init /\ [][NextBreak]_vars

\* the tokens of the command lines: the options, a value, a value that
\* begins with a dash, and the equals syntax
Tokens ==
    {<<"-", "o">>, <<"-", "-", "o">>, <<"-", "k">>, <<"x">>, <<"-", "x">>,
     <<"-", "-", "o", "=", "x">>, <<"-", "-", "k", "=", "x">>}

\* the command lines of up to MaxArgs tokens
CommandLines == UNION {[1..n -> Tokens] : n \in 1..MaxArgs}

\* one call of parse
NextParse ==
    \/ \E tokens \in CommandLines : parse_begin(tokens)
    \/ handle_equals_syntax
    \/ handle_regular_option
    \/ handle_positional_arg

SpecParse == Init /\ [][NextParse]_vars

\* every form
Next ==
    \/ NextControl
    \/ NextBranch
    \/ NextEnv
    \/ NextTypes
    \/ NextSet
    \/ NextArith
    \/ NextResolve
    \/ NextCheck
    \/ NextAlloca
    \/ NextArray
    \/ NextFunc
    \/ NextMem
    \/ NextTraceback
    \/ NextFormat
    \/ NextBreak
    \/ NextParse

Spec == Init /\ [][Next]_vars

-----------------------------------------------------------------------------
(* Claims on the emitted control flow (SpecControl) *)

Range(seq) == {seq[i] : i \in 1..Len(seq)}

\* the function main of the module
MainFn == getFunction(funcs, "main")

\* block b holds exactly one terminator, as its last instruction
WellTerminated(b) ==
    LET ins == blocks[b].instrs
    IN  /\ Len(ins) > 0
        /\ isTerminator(ins[Len(ins)])
        /\ \A i \in 1..(Len(ins) - 1) : ~isTerminator(ins[i])

\* the form on top of the stack stands inside a loop, while or for form
LexicallyInLoop ==
    \E i \in 1..(Len(stack) - 1) : stack[i].k \in {"loop", "while", "for"}

\* C1: once code generation has completed without a fatal error, every basic
\* block of every function holds exactly one terminator and it is the block's
\* last instruction.
C1_EveryBlockOneTerminator ==
    phase = "done" =>
        \A b \in 1..Len(blocks) : blocks[b].fn # 0 => WellTerminated(b)

\* the blocks that end with a branch to block b
BranchingTo(b) ==
    {p \in 1..Len(blocks) :
        /\ Len(blocks[p].instrs) > 0
        /\ LET last == blocks[p].instrs[Len(blocks[p].instrs)]
           IN  last.op \in {"br", "condbr"} /\ b \in Range(last.args)}

\* C2: the incoming blocks of every phi emitted by check or if are exactly the
\* blocks that end with a branch to the phi's block.
C2_PhiIncomingArePredecessors ==
    \A b \in 1..Len(blocks) : \A i \in 1..Len(blocks[b].instrs) :
        blocks[b].instrs[i].op = "phi" =>
            Range(blocks[b].instrs[i].args) = BranchingTo(b)

\* C5: a break or continue that is not inside a loop, while or for form is
\* fatal and emits nothing; break / continue emit a branch only with a
\* non-empty loop context stack, and the stack is non-empty only inside a loop.
C5_BreakOutsideLoopIsFatal ==
    [][\A which \in {"break", "continue"} :
          BreakContinue(which) =>
              /\ ~LexicallyInLoop =>
                     (fatal' = "loop_context" /\ blocks' = blocks /\ stack' = stack)
              /\ blocks' # blocks => (loopStack # <<>> /\ LexicallyInLoop)]_vars

\* C5 witness: a break or continue outside every loop has ended the
\* compilation, after a loop (a block with a back edge) was compiled and left
C5_Witness ==
    /\ fatal = "loop_context"
    /\ ~LexicallyInLoop
    /\ loopStack = <<>>
    /\ \E b \in 1..Len(blocks) : \E i \in 1..Len(blocks[b].instrs) :
           /\ blocks[b].instrs[i].op = "br"
           /\ \E t \in Range(blocks[b].instrs[i].args) : t <= b

-----------------------------------------------------------------------------
(* Claims on variables and environments (SpecEnv, SpecTypes) *)

\* all instructions emitted so far
Instructions == UNION {Range(blocks[b].instrs) : b \in 1..Len(blocks)}

\* the step dispatches a form of kind k: the undispatched call on top is
\* replaced by the handler's activation record
Dispatches(k) ==
    /\ Pending
    /\ Len(stack') >= Len(stack)
    /\ stack'[Len(stack)].k = k

\* the names a var or const form has declared: an alloca of that name received
\* the store of a var / const initialiser
DeclaredNames ==
    {n \in Names : \E a \in Instructions, st \in Instructions :
        /\ a.op = "alloca" /\ a.v = n
        /\ st.op = "store" /\ st.v \in {"var", "const"} /\ st.args = a.args}

\* the slots const forms have declared
ConstantSlots ==
    {a.args[1] : a \in {i \in Instructions : i.op = "alloca" /\
        \E st \in Instructions : st.op = "store" /\ st.v = "const" /\ st.args = i.args}}

\* the names const forms have declared
ConstantNames ==
    {n \in Names : \E a \in Instructions :
        a.op = "alloca" /\ a.v = n /\ a.args[1] \in ConstantSlots}

\* C3: a var / const of a name bound neither in the current scope nor in an
\* enclosing one completes without a fatal error, with one slot allocated and
\* bound to the name in the current scope and INIT stored into it.
C3_FreshDeclarationSucceeds ==
    [][(At("var", 1) /\ resolve(envs, Top.env, Top.nm) = 0) =>
           /\ fatal' = "none"
           /\ resolve(envs', Top.env, Top.nm) = Top.env
           /\ lookup_by_name(envs', Top.env, Top.nm).k = "alloca"
           /\ \E st \in Instructions' :
                  /\ st.op = "store"
                  /\ st.args = <<lookup_by_name(envs', Top.env, Top.nm).id>>]_vars

\* C4: a set whose target is a name declared with const is fatal as soon as it
\* is dispatched: VALUE is not generated, nothing is emitted, and no set ever
\* stores into the slot of a constant.
C4_SetOfConstantIsFatal ==
    [][/\ (Dispatches("set") /\ stack'[Len(stack)].nm \in ConstantNames) =>
              /\ fatal' = "constant_write"
              /\ Len(stack') = Len(stack)
              /\ blocks' = blocks
       /\ \A st \in Instructions' :
              (st.op = "store" /\ st.v = "set") => st.args[1] \notin ConstantSlots']_vars

\* C4 witness: a set of a declared constant has ended the compilation
C4_Witness ==
    /\ fatal = "constant_write"
    /\ Top.k = "set"
    /\ Top.nm \in ConstantNames

\* the scopes from e to the root, nearest first
RECURSIVE PathToRoot(_, _)
PathToRoot(es, e) == IF e = 0 THEN <<>> ELSE <<e>> \o PathToRoot(es, es[e].parent)

\* the nearest scope on the path from e to the root that binds name, 0 if none
NearestBinder(es, e, name) ==
    LET path == PathToRoot(es, e)
        binders == {i \in 1..Len(path) : name \in DOMAIN es[path[i]].record}
    IN  IF binders = {} THEN 0
        ELSE path[CHOOSE i \in binders : \A j \in binders : i <= j]

\* C7: a step changes the bindings of no scope but the one the running handler
\* was given (the global scope for generate_ir), so define never touches an
\* ancestor, and it only adds or rebinds names; lookup resolves every name to
\* the nearest scope towards the root that binds it; a symbol bound nowhere on
\* that path is fatal, and otherwise the nearest binding is what is loaded.
C7_DefineLocalLookupNearest ==
    [][/\ \A e \in 1..Len(envs) :
              envs'[e] # envs[e] =>
                  /\ e = (IF stack = <<>> THEN 1 ELSE Top.env)
                  /\ envs'[e].parent = envs[e].parent
                  /\ \A n \in DOMAIN envs[e].record : n \in DOMAIN envs'[e].record
       /\ \A e \in 1..Len(envs'), n \in Names :
              resolve(envs', e, n) = NearestBinder(envs', e, n)
       /\ \A n \in Names :
              Symbol(n) =>
                  IF NearestBinder(envs, Top.env, n) = 0
                  THEN fatal' = "undefined"
                  ELSE /\ fatal' = "none"
                       /\ LET slot == envs[NearestBinder(envs, Top.env, n)].record[n]
                          IN  IF slot.k = "fn" THEN ret' = slot
                              ELSE /\ ret'.ty = slot.ty
                                   /\ I("load", <<slot.id>>, slot.ty, slot.k)
                                          \in Instructions']_vars

\* C7 witness: a symbol bound in an inner scope and in the global scope has
\* been looked up from the inner scope, and the inner slot was loaded
C7_Witness ==
    /\ fatal = "none"
    /\ \E e \in 2..Len(envs) : \E n \in DOMAIN envs[e].record :
           /\ n \in DOMAIN envs[1].record
           /\ envs[e].record[n].k = "alloca"
           /\ I("load", <<envs[e].record[n].id>>, envs[e].record[n].ty, "alloca")
                  \in Instructions

ScopeReturns == At("scope", 1) /\ Len(stack') < Len(stack)

\* C9: when a scope form returns, every environment that existed when it was
\* entered (the enclosing scope and its ancestors among them) has the bindings
\* it had then, so each name resolves from the enclosing scope as before, and
\* the value returned is the value of the last child.
C9_ScopeRestoresBindings ==
    [][ScopeReturns =>
           /\ \A e \in 1..Len(Top.snap) : envs'[e] = Top.snap[e]
           /\ \A n \in Names :
                  resolve(envs', Top.env, n) = resolve(Top.snap, Top.env, n)
           /\ ret' = ret]_vars

\* C9 witness: the program is compiled, and a name bound inside a scope form
\* that has returned is bound nowhere from the enclosing scope outwards
C9_Witness ==
    /\ phase = "done"
    /\ \E e \in 3..Len(envs) : \E n \in DOMAIN envs[e].record :
           /\ envs[e].parent >= 2
           /\ resolve(envs, envs[e].parent, n) = 0

\* the combinations of INIT type and declared type that C10 accepts
DeclarationTypesAgree(init_type, var_type) ==
    \/ init_type = var_type
    \/ (isIntegerTy(init_type) /\ var_type = "double")

\* C10: a var / const of a declarable name completes without a fatal error if
\* and only if INIT's type is the declared type or INIT is an integer and the
\* declared type is double, and then the value stored has the declared type.
C10_DeclarationTypeChecked ==
    [][(At("var", 1) /\ resolve(envs, Top.env, Top.nm) # 0) =>
           LET var_type == extract_var_type(Top.tag)
           IN  /\ (fatal' = "none") <=> DeclarationTypesAgree(ret.ty, var_type)
               /\ fatal' = "none" =>
                      \E st \in Instructions' :
                          /\ st.op = "store" /\ st.v = Top.op
                          /\ st.ty = var_type]_vars

-----------------------------------------------------------------------------
(* Claims on assignment (SpecSet) *)

\* the instructions a step appends to the insertion block
Appended ==
    SubSeq(blocks'[insertBlock].instrs, Len(blocks[insertBlock].instrs) + 1,
           Len(blocks'[insertBlock].instrs))

\* C11: a set of a non-constant variable stores a value of exactly the
\* variable's stored type: VALUE as it is when its type is that type, a signed
\* conversion when VALUE is an integer and the variable is double; every other
\* combination is a fatal type mismatch and stores nothing.
C11_SetStoresVariableType ==
    [][(/\ At("set", 1)
        /\ resolve(envs, Top.env, Top.nm) # 0
        /\ lookup_by_name(envs, Top.env, Top.nm).k # "fn") =>
           LET var_type == lookup_by_name(envs, Top.env, Top.nm).ty
           IN  IF ret.ty = var_type
               THEN /\ fatal' = "none"
                    /\ Len(Appended) = 1
                    /\ Appended[1].op = "store" /\ Appended[1].ty = var_type
                    /\ ret' = ret
               ELSE IF isIntegerTy(ret.ty) /\ var_type = "double"
               THEN /\ fatal' = "none"
                    /\ Len(Appended) = 2
                    /\ Appended[1].op = "sitofp"
                    /\ Appended[2].op = "store" /\ Appended[2].ty = "double"
               ELSE /\ fatal' = "type_mismatch"
                    /\ blocks' = blocks]_vars

-----------------------------------------------------------------------------
(* Claims on binary operators (SpecArith) *)

\* the wider of two integer types
WiderType(t1, t2) == IF getIntegerBitWidth(t1) >= getIntegerBitWidth(t2) THEN t1 ELSE t2

\* C12: when the two operands of a binary operator are integers of different
\* widths, nothing is truncated, a narrower operand that is not a literal is
\* zero-extended to the wider type, and the operation is performed at the
\* wider width, whichever side the narrower operand is on.
C12_NarrowerOperandZeroExtended ==
    [][(/\ At("binary", 2)
        /\ isIntegerTy(Top.vals[1].ty) /\ isIntegerTy(ret.ty)
        /\ getIntegerBitWidth(Top.vals[1].ty) # getIntegerBitWidth(ret.ty)) =>
           LET left == Top.vals[1]
               right == ret
               wider == WiderType(left.ty, right.ty)
               narrower == IF left.ty = wider THEN right ELSE left
           IN  /\ \A i \in 1..Len(Appended) : Appended[i].op # "trunc"
               /\ narrower.k # "const" =>
                      \E i \in 1..Len(Appended) :
                          Appended[i].op = "zext" /\ Appended[i].ty = wider
               /\ \A i \in 1..Len(Appended) :
                      Appended[i].v = "binary" => Appended[i].args = <<wider, wider>>
               /\ ret'.ty \in {wider, "i1"}]_vars

\* the plain operator a mangled synonym stands for
PlainOperatorOf(op) ==
    CASE op = "__PLUS_OPERAND__" -> "+" [] op = "__SUB_OPERAND__" -> "-"
      [] op = "__MUL_OPERAND__" -> "*" [] op = "__DIV_OPERAND__" -> "/"
      [] op = "__CMPG__" -> ">" [] op = "__CMPL__" -> "<"
      [] op = "__CMPGE__" -> ">=" [] op = "__CMPLE__" -> "<="
      [] op = "__CMPEQ__" -> "==" [] op = "__CMPNE__" -> "!="
      [] OTHER -> op

\* the floating variant of a plain operator
FloatingVariant(op) ==
    CASE op = "+" -> "fadd" [] op = "-" -> "fsub" [] op = "*" -> "fmul" [] op = "/" -> "fdiv"
      [] op = ">" -> "fcmp ogt" [] op = "<" -> "fcmp olt" [] op = ">=" -> "fcmp oge"
      [] op = "<=" -> "fcmp ole" [] op = "==" -> "fcmp oeq" [] op = "!=" -> "fcmp one"

\* the signed integer variant of a plain operator
IntegerVariant(op) ==
    CASE op = "+" -> "add" [] op = "-" -> "sub" [] op = "*" -> "mul" [] op = "/" -> "sdiv"
      [] op = ">" -> "icmp sgt" [] op = "<" -> "icmp slt" [] op = ">=" -> "icmp sge"
      [] op = "<=" -> "icmp sle" [] op = "==" -> "icmp eq" [] op = "!=" -> "icmp ne"

ArithmeticOperators == {"+", "-", "*", "/"}

\* C13: each of the ten binary operators and each mangled synonym returns a
\* non-null value, computed with the floating variant of the plain operator
\* exactly when at least one operand is double and else with its signed
\* integer variant; a comparison yields the 1-bit predicate.
C13_OpcodeVariantFollowsOperands ==
    [][At("binary", 2) =>
           LET plain == PlainOperatorOf(Top.op)
               floating == Top.vals[1].ty = "double" \/ ret.ty = "double"
               expected == IF floating THEN FloatingVariant(plain) ELSE IntegerVariant(plain)
           IN  /\ Top.op \in BinaryOperators
               /\ ret' # NullV
               /\ \A i \in 1..Len(Appended) :
                      Appended[i].v = "binary" => Appended[i].op = expected
               /\ ret'.k = "inst" =>
                      (Len(Appended) > 0 /\ Appended[Len(Appended)].op = expected)
               /\ plain \in ArithmeticOperators => (ret'.ty = "double" <=> floating)
               /\ plain \notin ArithmeticOperators => ret'.ty = "i1"]_vars

\* C13 witness: a floating operation on a converted integer operand has been
\* emitted
C13_Witness ==
    /\ \E b \in 1..Len(blocks) : \E i, j \in 1..Len(blocks[b].instrs) :
           /\ blocks[b].instrs[i].op = "sitofp"
           /\ blocks[b].instrs[j].op \in {"fadd", "fsub", "fmul", "fdiv"}
    /\ fatal = "none"

-----------------------------------------------------------------------------
(* Claims on the type resolver (SpecResolve) *)

\* the IR type tabulated for each primitive tag
TabulatedType(tag) ==
    CASE tag \in {"!int", "!int64"} -> "i64"
      [] tag = "!int32" -> "i32"
      [] tag = "!int16" -> "i16"
      [] tag \in {"!int8", "!bool"} -> "i8"
      [] tag \in {"!str", "!ptr"} -> "ptr"
      [] tag = "!frac" -> "double"
      [] tag = "!none" -> "void"
      [] OTHER -> "i64"

\* the stack slots a step allocates
NewSlots == {a \in Instructions' : a.op = "alloca" /\ a \notin Instructions}

\* C14: the declared type of a primitive tag is the tabulated one (!int32 the
\* 32-bit integer, ...); an unrecognized tag prints a warning, is not fatal,
\* and is the 64-bit integer.
C14_PrimitiveTagsAsTabulated ==
    [][(At("var", 1) /\ Top.tag \in PrimitiveTags \cup UnknownTags) =>
           /\ fatal' = "none"
           /\ \E a \in NewSlots : a.ty = TabulatedType(Top.tag)
           /\ (<<"untyped", Top.nm>> \in warnings') <=> (Top.tag \in UnknownTags)]_vars

\* the N of a tag !size:N:T
ConstraintSize(tag) ==
    CASE tag = "!size:1:!int8" -> 1 [] tag = "!size:2:!int16" -> 2
      [] tag = "!size:8:!int64" -> 8 [] tag = "!size:8:!int8" -> 8

\* the T of a tag !size:N:T
ConstraintBase(tag) ==
    CASE tag = "!size:1:!int8" -> "!int8" [] tag = "!size:2:!int16" -> "!int16"
      [] tag = "!size:8:!int64" -> "!int64" [] tag = "!size:8:!int8" -> "!int8"

\* C15: a tag !size:N:T resolves to the type T alone resolves to, and is
\* fatal exactly when the allocation size of that type differs from N.
C15_SizeConstraintChecksBaseType ==
    [][(At("var", 1) /\ Top.tag \in SizeTags) =>
           LET base == get_type(ConstraintBase(Top.tag))
           IN  IF get_type_size(base) = ConstraintSize(Top.tag)
               THEN /\ fatal' = "none"
                    /\ \E a \in NewSlots : a.ty = base
               ELSE /\ fatal' = "size_mismatch"
                    /\ NewSlots = {}]_vars

-----------------------------------------------------------------------------
(* Claims on check (SpecCheck) *)

\* C16: a check whose THEN and ELSE values have different types is a fatal
\* type mismatch, and no phi is emitted for it.
C16_CheckBranchTypesMustMatch ==
    [][(At("check", 3) /\ Top.vals[1].ty # ret.ty) =>
           /\ fatal' = "type_mismatch"
           /\ \A b \in 1..Len(blocks) : \A i \in 1..Len(blocks'[b].instrs) :
                  blocks'[b].instrs[i].op = "phi" =>
                      (i <= Len(blocks[b].instrs) /\ blocks[b].instrs[i] = blocks'[b].instrs[i])]_vars

-----------------------------------------------------------------------------
(* Claims on if without else (SpecBranch) *)

\* the if forms made of condition / block pairs alone
PairShapes == {arms \in IfShapes : \A i \in 1..Len(arms) : arms[i] = "pair"}

\* C17: an if made only of condition / block pairs (the single pair included)
\* is not fatal, and when its last block is done it returns the signed 64-bit
\* constant zero.
C17_IfWithoutElseIsZero ==
    [][/\ \A arms \in PairShapes : IfEnter(arms) => fatal' = "none"
       /\ (At("if", 2) /\ Top.op = "first" /\ Top.arms = <<"pair">>) =>
              /\ fatal' = "none"
              /\ Len(stack') < Len(stack)
              /\ ret' = Int64Zero]_vars

-----------------------------------------------------------------------------
(* Claims on stack allocation (SpecAlloca) *)

\* C18: every stack allocation a step emits (a variable slot, a parameter
\* slot, an input buffer of finput) is in the entry block of the function
\* that is active when it is emitted.
C18_AllocasInEntryBlock ==
    [][\A b \in 1..Len(blocks') : \A i \in 1..Len(blocks'[b].instrs) :
           (/\ blocks'[b].instrs[i].op = "alloca"
            /\ (b > Len(blocks) \/ i > Len(blocks[b].instrs))) =>
               b = funcs'[activeFn'].entry]_vars

-----------------------------------------------------------------------------
(* Claims on constant arrays (SpecArray) *)

\* C19: a set of an element of an array declared with const is fatal as soon
\* as it is dispatched, and no store to an element of a constant array is
\* ever emitted.
C19_SetOfConstantArrayElementIsFatal ==
    [][/\ (Dispatches("setindex") /\ stack'[Len(stack)].nm \in DOMAIN constants) =>
              /\ fatal' # "none"
              /\ blocks' = blocks
       /\ \A st \in Instructions' :
              (st.op = "store" /\ st.v = "setindex") =>
                  \A n \in DOMAIN constants' : constants'[n].id # st.args[1]]_vars

-----------------------------------------------------------------------------
(* Claims on function definitions (SpecControl) *)

\* C20: a dispatched func form creates a new function with an entry block
\* of its own and makes that block the insertion point; while the form is
\* being compiled (its ret included) the insertion block it was dispatched
\* in receives no instruction, and every block that is created or receives
\* an instruction belongs to the innermost function being compiled, or is
\* still to be inserted into a function.
C20_FuncCompilesIntoOwnFunction ==
    [][/\ Dispatches("func") =>
              /\ Len(funcs') = Len(funcs) + 1
              /\ funcs'[activeFn'].name = stack'[Len(stack)].nm
              /\ funcs'[activeFn'].entry > Len(blocks)
              /\ insertBlock' = funcs'[activeFn'].entry
              /\ blocks'[insertBlock] = blocks[insertBlock]
       /\ \A d \in 1..Len(stack) :
              stack[d].k = "func" =>
                  /\ blocks'[stack[d].prevBlock] = blocks[stack[d].prevBlock]
                  /\ (\A u \in (d + 1)..Len(stack) : stack[u].k # "func") =>
                         \A b \in 1..Len(blocks') :
                             (b > Len(blocks) \/ blocks'[b] # blocks[b]) =>
                                 blocks'[b].fn \in {0, stack[d].blks[1]}]_vars

-----------------------------------------------------------------------------
(* Claims on the loop context stack and on func (SpecControl) *)

\* the frame a form's activation record keeps on m_LOOP_STACK while its body
\* (for while: its condition and body) is being compiled
LoopFrameOf(f) ==
    IF f.k = "loop" /\ f.pc = 1
    THEN <<[break_blog |-> f.blks[2], continue_block |-> f.blks[1]]>>
    ELSE IF f.k = "while" /\ f.pc \in {1, 2}
    THEN <<[break_blog |-> f.blks[1], continue_block |-> f.blks[2]]>>
    ELSE IF f.k = "for" /\ f.pc = 3
    THEN <<[break_blog |-> f.blks[4], continue_block |-> f.blks[3]]>>
    ELSE <<>>

\* the frames of the forms being compiled, outermost first
RECURSIVE EnclosingLoops(_)
EnclosingLoops(st) ==
    IF st = <<>> THEN <<>>
    ELSE EnclosingLoops(SubSeq(st, 1, Len(st) - 1)) \o LoopFrameOf(st[Len(st)])

\* the step returns from the func form on top
FuncReturns == At("func", 1) /\ Len(stack') < Len(stack)

\* C21: a func form records the active function and insertion block it is
\* dispatched in, nothing changes the activation records beneath the one on
\* top, and when the form returns the active function and insertion block are
\* the recorded ones and the loop context stack is that of the enclosing
\* forms, as it was at the dispatch.
C21_FuncRestoresContext ==
    [][/\ Dispatches("func") =>
              /\ stack'[Len(stack)].prevFn = activeFn
              /\ stack'[Len(stack)].prevBlock = insertBlock
              /\ loopStack = EnclosingLoops(Popped)
       /\ \A d \in 1..(Len(stack) - 1) : d <= Len(stack') /\ stack'[d] = stack[d]
       /\ FuncReturns =>
              /\ activeFn' = Top.prevFn
              /\ insertBlock' = Top.prevBlock
              /\ loopStack' = EnclosingLoops(stack')]_vars

\* C21 witness: a func form of a new function, dispatched inside a loop
\* form, has returned: main is active again, the insertion block is the
\* loop's and the loop's frame is on top
C21_Witness ==
    /\ fatal = "none"
    /\ ret.k = "fn"
    /\ ret.id # MainFn
    /\ Len(loopStack) = 1
    /\ activeFn = MainFn
    /\ insertBlock # funcs[ret.id].entry
    /\ blocks[funcs[ret.id].entry].instrs # <<>>

\* C26: the loop context stack is, at every moment, the frames of the loop,
\* while and for forms whose body is being compiled, outermost first, each
\* with the form's exit block as break target and the loop head (loop), the
\* continue block (while) or the step block (for) as continue target; so a
\* form pushes one frame, its frame is on top while its body is compiled, and
\* the stack after the form is the stack before it.
C26_LoopStackMirrorsEnclosingLoops == loopStack = EnclosingLoops(stack)

\* C26 witness: the body of a loop nested in the body of another loop form
\* is being compiled, and the two frames differ
C26_Witness ==
    /\ fatal = "none"
    /\ Len(loopStack) = 2
    /\ loopStack[1] # loopStack[2]
    /\ \E d \in 1..Len(stack) : stack[d].k \in {"while", "for"} /\ LoopFrameOf(stack[d]) # <<>>

-----------------------------------------------------------------------------
(* Claims on func forms without a body (SpecFunc) *)

\* C22: a func form written without a body, with or without a return type,
\* is refused with the fatal error of a malformed definition as soon as it is
\* dispatched: nothing is compiled for it and no read beyond the end of its
\* list decides what happens.
C22_FuncWithoutBodyIsFatal ==
    [][(Dispatches("func") /\ stack'[Len(stack)].op = "nobody") =>
           /\ fatal' = "malformed"
           /\ funcs' = funcs
           /\ blocks' = blocks]_vars

-----------------------------------------------------------------------------
(* Claims on the functions of the module (SpecMem) *)

\* the functions of the module with that name
Named(name) == {i \in 1..Len(funcs) : funcs[i].name = name}

\* a form of that heap intrinsic has been compiled: its call is in the module
Compiled(name) == \E c \in Instructions : c.op = "call" /\ c.v = name

\* C23: printf, scanf and getchar are functions of the module at every
\* moment; the module has a function malloc exactly when a mem-alloc form
\* has been compiled and a function free exactly when a mem-free form has
\* been compiled (as long as no fatal error has stopped the generation), each
\* of them once at most and as a declaration.
C23_HeapFunctionsDeclaredOnUse ==
    /\ \A name \in {"printf", "scanf", "getchar"} :
           \E i \in Named(name) : funcs[i].entry = 0
    /\ \A name \in {"malloc", "free"} :
           /\ fatal = "none" => ((Named(name) # {}) <=> Compiled(name))
           /\ Cardinality(Named(name)) <= 1
           /\ \A i \in Named(name) : funcs[i] = HeapFunction(name)

-----------------------------------------------------------------------------
(* Claims on finput (SpecAlloca) *)

\* the slots and globals bound to a name in some environment
Bindings ==
    {b \in UNION {{envs[e].record[n] : n \in DOMAIN envs[e].record} : e \in 1..Len(envs)} :
        b.k \in {"alloca", "global"}}

\* C24: finput stores the address of an input buffer only into the slot of
\* a variable whose declared type is a pointer, and compiles the getchar
\* loop only when it has stored one.
C24_StringHandlingOnlyForPointers ==
    [][/\ \A st \in Instructions' \ Instructions :
              (st.op = "store" /\ st.v = "finput") =>
                  \E b \in Bindings : b.id = st.args[1] /\ b.ty = "ptr"
       /\ (\E c \in Instructions' \ Instructions : c.op = "call" /\ c.v = "getchar") =>
              \E st \in Instructions' \ Instructions : st.op = "store" /\ st.v = "finput"]_vars

-----------------------------------------------------------------------------
(* Claims on the traceback (SpecTraceback) *)

\* C25: every text in the traceback buffer, whatever kind of expression it
\* was made from, has at most 120 characters.
C25_RecordedTextsAtMost120 ==
    \A k \in 1..Len(expression_stack_) : Len(expression_stack_[k][2]) <= 120

-----------------------------------------------------------------------------
(* Claims on the format string of finput (SpecFormat) *)

\* the text with every "%s", taken from left to right, written as the scan-set
RECURSIVE EveryStringRead(_)
EveryStringRead(text) ==
    IF Len(text) < 2 THEN text
    ELSE IF text[1] = "%" /\ text[2] = "s"
    THEN <<"%", "[", "^", "\n", "]">> \o EveryStringRead(SubSeq(text, 3, Len(text)))
    ELSE <<text[1]>> \o EveryStringRead(Tail(text))

\* C27: when some target of finput is treated as a string, the format passed
\* to scanf is the format argument with every %s written as the scan-set and
\* every other character kept in its place, and no %s is left in it.
C27_EveryStringConversionRewritten ==
    string_input =>
        /\ format_str = EveryStringRead(format_exp)
        /\ \A k \in 1..(Len(format_str) - 1) :
               ~(format_str[k] = "%" /\ format_str[k + 1] = "s")

-----------------------------------------------------------------------------
(* Claims on break and continue across functions (SpecBreak) *)

\* C28: the branch of a break or continue stays within a function: once
\* the block it is in and the block it targets are both part of a function,
\* that is the same function.
C28_BreakStaysInFunction ==
    \A b \in 1..Len(blocks) : \A k \in 1..Len(blocks[b].instrs) :
        LET br == blocks[b].instrs[k]
        IN  (/\ br.op = "br"
             /\ br.v \in {"break", "continue"}
             /\ blocks[b].fn # 0
             /\ blocks[br.args[1]].fn # 0) =>
                blocks[br.args[1]].fn = blocks[b].fn

-----------------------------------------------------------------------------
(* Claims on hoisted slots (SpecAlloca) *)

\* C29: no stack slot of a variable or parameter follows a terminator in
\* its block.
C29_SlotsPrecedeTerminator ==
    \A b \in 1..Len(blocks) : \A k \in 1..Len(blocks[b].instrs) :
        (blocks[b].instrs[k].op = "alloca" /\ blocks[b].instrs[k].v # "input_buffer") =>
            \A j \in 1..(k - 1) : ~isTerminator(blocks[b].instrs[j])

-----------------------------------------------------------------------------
(* Claims on the command line parser (SpecParse) *)

\* the token names a registered option that requires an argument
TakesArgument(token) ==
    LET idx == IF TwoDashes(token) THEN FindLong(token) ELSE FindShort(token)
    IN  idx # 0 /\ m_OPTIONS[idx].requires_argument

\* the command line is a sequence of such options, each followed by a token
OptionsWithArguments(tokens) ==
    /\ Len(tokens) % 2 = 0
    /\ \A k \in 1..Len(tokens) : k % 2 = 1 => TakesArgument(tokens[k])

\* C30: for a command line of known options each followed by its argument,
\* parse takes up a token after an option only as that option's value (its
\* index stays on the options), records no error and no positional argument,
\* and when it has returned the option has the last argument as its value.
C30_ArgumentTokensConsumedOnce ==
    OptionsWithArguments(argv) =>
        /\ m_ERRORS = <<>>
        /\ m_POSITIONAL_ARGS = <<>>
        /\ arg_index > 0 => arg_index % 2 = 1
        /\ parse_returned =>
               /\ DOMAIN m_PARSED_VALUES = {FindShort(<<"-", "o">>)}
               /\ m_PARSED_VALUES[FindShort(<<"-", "o">>)] = argv[Len(argv)]

====
